---- MODULE Spec2Model ----
(***************************************************************************)
(* Store-and-forward queue of the iNasas telemetry node.                   *)
(*                                                                         *)
(* The model follows the two-file program with record identifiers          *)
(* (src/Modular_sensores_SD/Modular_sensores_SD.ino, second program,       *)
(* "v2.0 OPTIMIZADO", lines 940-1785): pendient.csv holds the records not  *)
(* yet acknowledged, enviado.csv the acknowledged ones, temp.tmp is the    *)
(* scratch file of the first-line removal.                                 *)
(*                                                                         *)
(* A text line is modelled by its ';'-separated tokens and by the number   *)
(* of carriage returns that precede its newline: println() ends a line     *)
(* with "\r\n", and leerLineaN() stops at '\n' only, so a line that is     *)
(* read and printed again gains one '\r'.                                  *)
(***************************************************************************)
EXTENDS Integers, Sequences, FiniteSets, TLC

VARIABLES
  pc,                    \* position of the single execution context
  pila,                  \* return labels of the calls in progress
  sd,                    \* the SD volume: file name -> sequence of lines
  sdDisponible,          \* bool sdDisponible
  contadorMediciones,    \* unsigned long contadorMediciones
  contador_bateria_baja, \* int contador_bateria_baja
  periodo, acumula,      \* operating parameters
  voltios, porcentaje, cobertura,
  bufferLinea,           \* char bufferLinea[BUFFER_SIZE], as a C string
  pendientes, intentos, enviados,  \* locals of reintentarPendientes
  campos,                \* temp, cond, bat, volt, cob parsed by the drain
  buffers,               \* tempBuffer .. cobBuffer of loop()
  iAcumula,              \* loop index i of the accumulation loop
  guardado,              \* bool guardado of loop()
  millis,                \* millis(), advanced once per operating cycle
  cortes, fallosSD,      \* power losses and storage errors so far
  historial,             \* records appended to pendient.csv, in order
  noGuardados,           \* records whose append to pendient.csv failed
  sometidos, acusados,   \* records submitted / acknowledged so far
  nEnvios, ultimoEnvio,  \* number of submit calls, and the last one
  falloDrain,            \* a submit of the current drain returned failure
  promocion,             \* the promotion (or discard) in progress
  cortada,               \* the promotion that the last power loss interrupted
  archivoLectura,        \* File archivoLectura of reintentarEnviosPendientes
  entorno,               \* what surrounds the node in this run: network, battery, faults
  ciclo                  \* what the current operating cycle has done so far

vars == <<pc, pila, sd, sdDisponible, contadorMediciones, contador_bateria_baja,
          periodo, acumula, voltios, porcentaje, cobertura, bufferLinea,
          pendientes, intentos, enviados, campos, buffers, iAcumula, guardado,
          millis, cortes, fallosSD, historial, noGuardados, sometidos,
          acusados, nEnvios, ultimoEnvio, falloDrain, promocion, cortada,
          archivoLectura, entorno, ciclo>>

(***************************************************************************)
(* Bounds of the model.                                                    *)
(***************************************************************************)
MaxCiclos == 3
MaxFallos == 1

(***************************************************************************)
(* Program constants.                                                      *)
(***************************************************************************)
MAX_REINTENTOS == 3
UMBRAL_BATERIA_BAJA == 25
PeriodoInicial == 60
AcumulaInicial == 1

ARCHIVO_PENDIENTES == "pendient.csv"
ARCHIVO_ENVIADOS == "enviado.csv"
ARCHIVO_LOG == "log.txt"
ArchivoTemp == "temp.tmp"

\* A line as println(tokens joined by ';') stores it.
Linea(tokens) == [t |-> tokens, cr |-> 1]

\* What println(buffer) stores when the buffer holds a line that was read back.
Impresa(buf) == [t |-> buf.t, cr |-> buf.cr + 1]

Encabezado ==
  <<"ID", "Timestamp", "Temperatura", "Conductividad", "Bateria", "Voltaje", "Cobertura">>

BufferVacio == [t |-> <<>>, cr |-> 0]

\* The fields parsed by the drain, with the line they were parsed from.
CamposVacios == [t |-> <<>>, cr |-> 0, linea |-> <<>>]

\* char tempBuffer[50] = "" .. char cobBuffer[50] = ""
BuffersVacios == [temp |-> "", cond |-> "", bat |-> "", volt |-> "", cob |-> ""]

Digito == <<"0", "1", "2", "3", "4", "5", "6", "7", "8", "9">>

\* Print::print(unsigned long) and itoa(n, buf, 10) for n >= 0.
RECURSIVE Dec(_)
Dec(n) == IF n < 10 THEN Digito[n + 1] ELSE Dec(n \div 10) \o Digito[(n % 10) + 1]

(***************************************************************************)
(* The SD library: SD.open(name, FILE_WRITE) creates the file when it is   *)
(* missing and positions at its end; SD.remove deletes it.                 *)
(***************************************************************************)
Contenido(s, f) == IF f \in DOMAIN s THEN s[f] ELSE <<>>

Anexar(s, f, ls) ==
  [g \in DOMAIN s \cup {f} |-> IF g = f THEN Contenido(s, f) \o ls ELSE s[g]]

Remover(s, f) == [g \in DOMAIN s \ {f} |-> s[g]]

\* Faults (storage errors and power losses) that the run may still have.
Restantes == entorno.fallos - (fallosSD + cortes)

\* The outcomes SD.open can have on a mounted volume: it may fail while the
\* budget of faults lasts.
Aperturas == IF Restantes > 0 THEN {TRUE, FALSE} ELSE {TRUE}

Falla(ok) == IF ok THEN 0 ELSE 1

\* The storage errors of one step fit in what is left of the budget.
Presupuesto(oks) == Cardinality({j \in DOMAIN oks : ~oks[j]}) <= Restantes

Fallos(oks) == Cardinality({j \in DOMAIN oks : ~oks[j]})

(***************************************************************************)
(* Utility functions of the SD section.                                    *)
(***************************************************************************)
\* escribirLog writing its line to pendient.csv instead of log.txt.
escribirLog_enPendientes(s, disponible, abre, mensaje) ==
  IF disponible /\ abre
  THEN Anexar(s, ARCHIVO_PENDIENTES, <<Linea(<<Dec(millis) \o " ms: " \o mensaje>>)>>)
  ELSE s

\* escribirLog: the volume after the call; abre is the outcome of SD.open.
escribirLog(s, disponible, abre, mensaje) ==
  IF disponible /\ abre
  THEN Anexar(s, ARCHIVO_LOG, <<Linea(<<Dec(millis) \o " ms: " \o mensaje>>)>>)
  ELSE s

\* contarLineas: the number of '\n' in the file, 0 when it cannot be opened.
contarLineas(s, disponible, abre, nombreArchivo) ==
  IF disponible /\ abre /\ nombreArchivo \in DOMAIN s THEN Len(s[nombreArchivo]) ELSE 0

\* leerLineaN: the result and the buffer after the call (the buffer keeps its
\* old content when the call returns false).
leerLineaN(s, disponible, abre, nombreArchivo, numeroLinea, buffer) ==
  IF /\ disponible
     /\ abre
     /\ nombreArchivo \in DOMAIN s
     /\ numeroLinea >= 0
     /\ numeroLinea < Len(s[nombreArchivo])
  THEN [ok |-> TRUE, buffer |-> s[nombreArchivo][numeroLinea + 1]]
  ELSE [ok |-> FALSE, buffer |-> buffer]

(***************************************************************************)
(* The transport.  A reply is the text that AT+HTTPREAD delivers; the      *)
(* program looks for "200" or "OK" in it with strstr and reads its second  *)
(* and third '|'-separated tokens with strtok and atoi.                    *)
(***************************************************************************)
\* strstr(texto, marca) != NULL
Contiene(texto, marca) ==
  \E i \in 1..(Len(texto) - Len(marca) + 1) : SubSeq(texto, i, i + Len(marca) - 1) = marca

\* The tokens that successive strtok(.., d) calls deliver: the non-empty runs
\* of characters other than d.
RECURSIVE strtok(_, _)
strtok(texto, d) ==
  IF texto = "" THEN <<>>
  ELSE IF SubSeq(texto, 1, 1) = d THEN strtok(SubSeq(texto, 2, Len(texto)), d)
  ELSE LET fin == IF Contiene(texto, d)
                  THEN CHOOSE i \in 1..Len(texto) :
                         /\ SubSeq(texto, i, i) = d
                         /\ \A j \in 1..(i - 1) : SubSeq(texto, j, j) # d
                  ELSE Len(texto) + 1
       IN <<SubSeq(texto, 1, fin - 1)>> \o strtok(SubSeq(texto, fin + 1, Len(texto)), d)

\* atoi: blanks, an optional sign, then the leading decimal digits, in a
\* 16-bit int.
EsDigito(c) == \E k \in 1..10 : Digito[k] = c

RECURSIVE Cifras(_, _)
Cifras(texto, n) ==
  IF texto # "" /\ EsDigito(SubSeq(texto, 1, 1))
  THEN Cifras(SubSeq(texto, 2, Len(texto)),
              10 * n + ((CHOOSE k \in 1..10 : Digito[k] = SubSeq(texto, 1, 1)) - 1))
  ELSE n

RECURSIVE SinBlancos(_)
SinBlancos(texto) ==
  IF texto # "" /\ SubSeq(texto, 1, 1) \in {" ", "\t", "\n", "\r"}
  THEN SinBlancos(SubSeq(texto, 2, Len(texto))) ELSE texto

Int16(n) == ((n + 32768) % 65536) - 32768

atoi(texto) ==
  LET u == SinBlancos(texto) IN
  IF u # "" /\ SubSeq(u, 1, 1) = "-" THEN Int16(0 - Cifras(SubSeq(u, 2, Len(u)), 0))
  ELSE IF u # "" /\ SubSeq(u, 1, 1) = "+" THEN Int16(Cifras(SubSeq(u, 2, Len(u)), 0))
  ELSE Int16(Cifras(u, 0))

\* The reading of a reply with the test for "OK" alone.
Leida_soloOK(texto) ==
  LET tokens == strtok(texto, "|") IN
  [ texto |-> texto,
    marca |-> Contiene(texto, "OK"),
    valores |-> [k \in 1..(IF Len(tokens) >= 3 THEN 2 ELSE IF Len(tokens) = 2 THEN 1 ELSE 0)
                   |-> atoi(tokens[k + 1])] ]

\* A reply as the program reads it: whether it holds one of the two markers,
\* and atoi of its second and third tokens, as far as they exist.
Leida(texto) ==
  LET tokens == strtok(texto, "|") IN
  [ texto |-> texto,
    marca |-> Contiene(texto, "200") \/ Contiene(texto, "OK"),
    valores |-> [k \in 1..(IF Len(tokens) >= 3 THEN 2 ELSE IF Len(tokens) = 2 THEN 1 ELSE 0)
                   |-> atoi(tokens[k + 1])] ]

\* The replies of a run in the field: an error text, or the acknowledgement
\* with a period and an accumulation count.
Textos == {"ERROR", "OK|120|2"}

Respuestas == {Leida(texto) : texto \in Textos}

\* Replies with missing, zero, negative and out-of-range parameters, with a
\* marker inside another word, without any marker, and the empty reply.
TextosParametros ==
  {"", "ERROR", "ERROR|30|4", "200", "OK|120|2", "OK|0|3", "OK|-5|2", "OK|90", "OK|30|0",
   "TOKEN|16|1", "OK|40000|3"}

\* enviarHTTP: its return value and the operating parameters after it.
enviarHTTP(respuesta) ==
  [ exitoso |-> respuesta.marca,
    periodo |-> IF /\ respuesta.marca
                   /\ Len(respuesta.valores) >= 1
                   /\ respuesta.valores[1] > 0
                THEN respuesta.valores[1] ELSE periodo,
    acumula |-> IF /\ respuesta.marca
                   /\ Len(respuesta.valores) >= 2
                   /\ respuesta.valores[2] > 0
                THEN respuesta.valores[2] ELSE acumula ]

(***************************************************************************)
(* Sensors and SIM800 status.                                              *)
(***************************************************************************)
\* Replies to AT+CBC: porcentaje and voltios as atoi() reads them.
RespuestasCBC == { [porcentaje |-> 80, voltios |-> 3700] }

\* Reply to AT+CSQ.
RespuestasCSQ == {20}

\* dtostrf() of the temperature and the conductivity read.
Muestras == { [temp |-> "20.5", cond |-> "1413.0"] }

\* leerBateria: the low-battery counter after a reading of v millivolts.
leerBateria(contador, v) ==
  IF v > 3000 /\ v < 3300 THEN contador + 1
  ELSE IF v >= 3300 THEN 0
  ELSE contador

(***************************************************************************)
(* The surroundings of one run.  ciclos bounds the operating cycles and    *)
(* fallos the storage errors and power losses of the run; cbc is what the  *)
(* SIM800 answers to AT+CBC, and red is the state of the network: "libre"  *)
(* (any submit may fail), "recuperada" (a submit may fail only among the   *)
(* first SubmitsConFallo of the run), "caida" (every submit fails) or      *)
(* "buena" (every submit succeeds), or "parametros" (any reply of           *)
(* TextosParametros).                                                      *)
(***************************************************************************)
SubmitsConFallo == 6

EntornoCampo ==
  [ciclos |-> MaxCiclos, fallos |-> MaxFallos, cbc |-> RespuestasCBC, red |-> "libre"]

\* The replies that the server may give to the next submit.
Red ==
  CASE entorno.red = "libre" -> Respuestas
    [] entorno.red = "recuperada" ->
         IF nEnvios < SubmitsConFallo THEN Respuestas ELSE {r \in Respuestas : r.marca}
    [] entorno.red = "caida" -> {r \in Respuestas : ~r.marca}
    [] entorno.red = "buena" -> {r \in Respuestas : r.marca}
    [] entorno.red = "parametros" -> {Leida(texto) : texto \in TextosParametros}

\* Bookkeeping of the operating cycle in progress, cleared when loop() returns
\* (except previo): the two files as the drain
\* found them, the submits of the drain and of loop(), the first record the
\* drain submitted, the record whose submit failed in the drain (previo: in
\* the drain of the cycle before), and the lines the drain discarded.
CicloNuevo ==
  [pendAlDrenar |-> <<>>, enviAlDrenar |-> <<>>, enviosDrain |-> 0, enviosLoop |-> 0,
   primero |-> <<>>, fallido |-> <<>>, previo |-> <<>>, descartes |-> <<>>]

(***************************************************************************)
(* Initial state: power-up on a fresh volume, before setup().              *)
(***************************************************************************)
ArchivoCerrado == [abierto |-> FALSE, leidas |-> 0, resto |-> <<>>]
PromocionNinguna == [fase |-> "ninguna", linea |-> <<>>, antes |-> <<>>]

Volatil ==
  /\ pila = <<>>
  /\ sdDisponible = FALSE
  /\ contadorMediciones = 0
  /\ contador_bateria_baja = 0
  /\ periodo = PeriodoInicial
  /\ acumula = AcumulaInicial
  /\ voltios = 0
  /\ porcentaje = 0
  /\ cobertura = 0
  /\ bufferLinea = BufferVacio
  /\ pendientes = 0
  /\ intentos = 0
  /\ enviados = 0
  /\ campos = CamposVacios
  /\ buffers = BuffersVacios
  /\ iAcumula = 0
  /\ guardado = FALSE
  /\ falloDrain = FALSE
  /\ promocion = PromocionNinguna

\* The same initializers, as the values after a restart.
Rearranque ==
  /\ pila' = <<>>
  /\ sdDisponible' = FALSE
  /\ contadorMediciones' = 0
  /\ contador_bateria_baja' = 0
  /\ periodo' = PeriodoInicial
  /\ acumula' = AcumulaInicial
  /\ voltios' = 0
  /\ porcentaje' = 0
  /\ cobertura' = 0
  /\ bufferLinea' = BufferVacio
  /\ pendientes' = 0
  /\ intentos' = 0
  /\ enviados' = 0
  /\ campos' = CamposVacios
  /\ buffers' = BuffersVacios
  /\ iAcumula' = 0
  /\ guardado' = FALSE
  /\ falloDrain' = FALSE
  /\ promocion' = PromocionNinguna

\* Power-up: everything but the content of the card and the record of what
\* was appended to it.
Encendido ==
  /\ pc = "setup"
  /\ Volatil
  /\ millis = 0
  /\ cortes = 0
  /\ fallosSD = 0
  /\ noGuardados = {}
  /\ sometidos = {}
  /\ acusados = {}
  /\ nEnvios = 0
  /\ ultimoEnvio = [linea |-> <<>>, respuesta |-> "", ok |-> FALSE, origen |-> "ninguno"]
  /\ cortada = [fase |-> "ninguna", clase |-> "", linea |-> <<>>, antes |-> <<>>, etapa |-> ""]
  /\ archivoLectura = ArchivoCerrado
  /\ ciclo = CicloNuevo

Arranque ==
  /\ Encendido
  /\ sd = <<>>
  /\ historial = <<>>

Init ==
  /\ Arranque
  /\ entorno = EntornoCampo

fantasmas == <<historial, noGuardados, sometidos, acusados, nEnvios, ultimoEnvio, cortada>>
localesDrain == <<pendientes, intentos, enviados, campos, falloDrain>>
localesLoop == <<buffers, iAcumula, guardado>>
parametros == <<periodo, acumula>>
estadoSIM == <<voltios, porcentaje, cobertura, contador_bateria_baja>>

\* setup() without the two SD.exists tests: pendient.csv and enviado.csv are
\* created anew, with their header line, at every start.
setup_recreando ==
  /\ pc = "setup"
  /\ \E begin \in BOOLEAN, aP \in BOOLEAN, aE \in BOOLEAN, aL \in BOOLEAN, aLog \in BOOLEAN :
       /\ ~aP => begin
       /\ ~aE => begin
       /\ ~aL => begin /\ ARCHIVO_LOG \notin DOMAIN sd
       /\ ~aLog => begin
       /\ Presupuesto(<<aP, aE, aL, aLog>>)
       /\ fallosSD' = fallosSD + Fallos(<<aP, aE, aL, aLog>>)
       /\ sdDisponible' = begin
       /\ LET s1 == IF begin /\ aP
                    THEN Anexar(Remover(sd, ARCHIVO_PENDIENTES), ARCHIVO_PENDIENTES,
                                <<Linea(Encabezado)>>) ELSE sd
              s2 == IF begin /\ aE
                    THEN Anexar(Remover(s1, ARCHIVO_ENVIADOS), ARCHIVO_ENVIADOS,
                                <<Linea(Encabezado)>>) ELSE s1
              s3 == IF begin /\ aL /\ ARCHIVO_LOG \notin DOMAIN s2
                    THEN Anexar(s2, ARCHIVO_LOG, <<Linea(<<"=== LOG DEL SISTEMA ===">>)>>) ELSE s2
          IN sd' = escribirLog(s3, begin, aLog, "Sistema iniciado")
  /\ pc' = "loop"
  /\ UNCHANGED <<pila, contadorMediciones, bufferLinea, millis, cortes,
                 promocion, parametros, estadoSIM, localesDrain, localesLoop, fantasmas>>
  /\ UNCHANGED <<archivoLectura, entorno, ciclo>>

(***************************************************************************)
(* setup()                                                                 *)
(***************************************************************************)
setup ==
  /\ pc = "setup"
  /\ \E begin \in BOOLEAN, aP \in BOOLEAN, aE \in BOOLEAN, aL \in BOOLEAN, aLog \in BOOLEAN :
       /\ ~aP => begin /\ ARCHIVO_PENDIENTES \notin DOMAIN sd
       /\ ~aE => begin /\ ARCHIVO_ENVIADOS \notin DOMAIN sd
       /\ ~aL => begin /\ ARCHIVO_LOG \notin DOMAIN sd
       /\ ~aLog => begin
       /\ Presupuesto(<<aP, aE, aL, aLog>>)
       /\ fallosSD' = fallosSD + Fallos(<<aP, aE, aL, aLog>>)
       /\ sdDisponible' = begin
       /\ LET s1 == IF begin /\ aP /\ ARCHIVO_PENDIENTES \notin DOMAIN sd
                    THEN Anexar(sd, ARCHIVO_PENDIENTES, <<Linea(Encabezado)>>) ELSE sd
              s2 == IF begin /\ aE /\ ARCHIVO_ENVIADOS \notin DOMAIN s1
                    THEN Anexar(s1, ARCHIVO_ENVIADOS, <<Linea(Encabezado)>>) ELSE s1
              s3 == IF begin /\ aL /\ ARCHIVO_LOG \notin DOMAIN s2
                    THEN Anexar(s2, ARCHIVO_LOG, <<Linea(<<"=== LOG DEL SISTEMA ===">>)>>) ELSE s2
          IN sd' = escribirLog(s3, begin, aLog, "Sistema iniciado")
  /\ pc' = "loop"
  /\ UNCHANGED <<pila, contadorMediciones, bufferLinea, millis, cortes,
                 promocion, parametros, estadoSIM, localesDrain, localesLoop, fantasmas>>
  /\ UNCHANGED <<archivoLectura, entorno, ciclo>>

(***************************************************************************)
(* loop(): battery gate.                                                   *)
(***************************************************************************)
\* The gate with a powerDown() that returns: the shutdown line is logged and
\* the cycle goes on.
loop_sinParada ==
  /\ pc = "loop"
  /\ millis < entorno.ciclos
  /\ millis' = millis + 1
  /\ IF contador_bateria_baja > UMBRAL_BATERIA_BAJA
     THEN \E aLog \in Aperturas :
            /\ ~aLog => sdDisponible
            /\ fallosSD' = fallosSD + Falla(aLog)
            /\ sd' = escribirLog(sd, sdDisponible, aLog, "SHUTDOWN: Bateria critica")
            /\ pc' = "reintentarPendientes"
     ELSE /\ pc' = "reintentarPendientes"
          /\ UNCHANGED <<sd, fallosSD>>
  /\ cortada' = IF cortada.fase = "reciente" THEN [cortada EXCEPT !.fase = "pendiente"] ELSE cortada
  /\ UNCHANGED <<pila, sdDisponible, contadorMediciones, bufferLinea, cortes,
                 promocion, parametros, estadoSIM, localesDrain, localesLoop,
                 historial, noGuardados, sometidos, acusados, nEnvios, ultimoEnvio>>
  /\ UNCHANGED <<archivoLectura, entorno, ciclo>>

loop ==
  /\ pc = "loop"
  /\ millis < entorno.ciclos
  /\ millis' = millis + 1
  /\ IF contador_bateria_baja > UMBRAL_BATERIA_BAJA
     THEN \E aLog \in Aperturas :
            /\ ~aLog => sdDisponible
            /\ fallosSD' = fallosSD + Falla(aLog)
            /\ sd' = escribirLog(sd, sdDisponible, aLog, "SHUTDOWN: Bateria critica")
            /\ pc' = "apagado"
     ELSE /\ pc' = "reintentarPendientes"
          /\ UNCHANGED <<sd, fallosSD>>
  /\ cortada' = IF cortada.fase = "reciente" THEN [cortada EXCEPT !.fase = "pendiente"] ELSE cortada
  /\ UNCHANGED <<pila, sdDisponible, contadorMediciones, bufferLinea, cortes,
                 promocion, parametros, estadoSIM, localesDrain, localesLoop,
                 historial, noGuardados, sometidos, acusados, nEnvios, ultimoEnvio>>
  /\ UNCHANGED <<archivoLectura, entorno, ciclo>>

(***************************************************************************)
(* reintentarPendientes()                                                  *)
(***************************************************************************)
\* Entry: the guard on sdDisponible and the count of pending lines.
reintentarPendientes ==
  /\ pc = "reintentarPendientes"
  /\ \E abre \in Aperturas :
       /\ ~abre => sdDisponible /\ ARCHIVO_PENDIENTES \in DOMAIN sd
       /\ fallosSD' = fallosSD + Falla(abre)
       /\ LET n == contarLineas(sd, sdDisponible, abre, ARCHIVO_PENDIENTES) IN
          IF ~sdDisponible \/ n = 0
          THEN /\ pc' = "leerEstado"
               /\ UNCHANGED pendientes
          ELSE /\ pc' = "rp_while"
               /\ pendientes' = n
  /\ intentos' = 0
  /\ enviados' = 0
  /\ falloDrain' = FALSE
  /\ UNCHANGED <<pila, sd, sdDisponible, contadorMediciones, bufferLinea, millis, cortes,
                 campos, promocion, parametros, estadoSIM, localesLoop, fantasmas>>
  /\ UNCHANGED <<archivoLectura, entorno>>
  /\ ciclo' = [ciclo EXCEPT !.pendAlDrenar = Contenido(sd, ARCHIVO_PENDIENTES),
                            !.enviAlDrenar = Contenido(sd, ARCHIVO_ENVIADOS)]

\* The loop head with "continue" in place of the three "break" of an unreadable
\* line: the next round starts with intentos as it was.
rp_while_sinSalida ==
  /\ pc = "rp_while"
  /\ IF intentos < MAX_REINTENTOS /\ intentos < pendientes
     THEN \E abre \in Aperturas :
            LET r == leerLineaN(sd, sdDisponible, abre, ARCHIVO_PENDIENTES, 0, bufferLinea)
                t == r.buffer.t
            IN
            /\ ~abre => ARCHIVO_PENDIENTES \in DOMAIN sd
            /\ fallosSD' = fallosSD + Falla(abre)
            /\ IF ~r.ok \/ Len(t) < 2
               THEN \* the line cannot be read, or strtok finds no ID or no Timestamp: continue
                    /\ bufferLinea' = r.buffer
                    /\ pc' = "rp_while"
                    /\ UNCHANGED <<pila, campos, promocion>>
               ELSE /\ bufferLinea' = [t |-> <<t[1]>>, cr |-> 0]
                    /\ IF Len(t) < 7
                       THEN \* "Linea corrupta, eliminando"
                            /\ pc' = "eliminarPrimeraLinea"
                            /\ pila' = <<"rp_descartada">> \o pila
                            /\ promocion' = [fase |-> "descarte", linea |-> t,
                                             antes |-> Contenido(sd, ARCHIVO_PENDIENTES)]
                            /\ UNCHANGED campos
                       ELSE /\ pc' = "rp_enviarHTTP"
                            /\ campos' = [t |-> SubSeq(t, 3, 7),
                                          cr |-> IF Len(t) = 7 THEN r.buffer.cr ELSE 0,
                                          linea |-> t]
                            /\ UNCHANGED <<pila, promocion>>
     ELSE /\ pc' = "rp_fin"
          /\ UNCHANGED <<pila, bufferLinea, campos, promocion, fallosSD>>
  /\ UNCHANGED <<sd, sdDisponible, contadorMediciones, millis, cortes, pendientes, intentos,
                 enviados, falloDrain, parametros, estadoSIM, localesLoop, fantasmas>>
  /\ UNCHANGED <<archivoLectura, entorno>>
  /\ ciclo' = IF pc' = "eliminarPrimeraLinea"
               THEN [ciclo EXCEPT !.descartes = Append(@, promocion'.linea)]
               ELSE ciclo

\* Loop head, leerLineaN of line 0 and the strtok parse of the line.
rp_while ==
  /\ pc = "rp_while"
  /\ IF intentos < MAX_REINTENTOS /\ intentos < pendientes
     THEN \E abre \in Aperturas :
            LET r == leerLineaN(sd, sdDisponible, abre, ARCHIVO_PENDIENTES, 0, bufferLinea)
                t == r.buffer.t
            IN
            /\ ~abre => ARCHIVO_PENDIENTES \in DOMAIN sd
            /\ fallosSD' = fallosSD + Falla(abre)
            /\ IF ~r.ok \/ Len(t) < 2
               THEN \* the line cannot be read, or strtok finds no ID or no Timestamp: break
                    /\ bufferLinea' = r.buffer
                    /\ pc' = "rp_fin"
                    /\ UNCHANGED <<pila, campos, promocion>>
               ELSE /\ bufferLinea' = [t |-> <<t[1]>>, cr |-> 0]
                    /\ IF Len(t) < 7
                       THEN \* "Linea corrupta, eliminando"
                            /\ pc' = "eliminarPrimeraLinea"
                            /\ pila' = <<"rp_descartada">> \o pila
                            /\ promocion' = [fase |-> "descarte", linea |-> t,
                                             antes |-> Contenido(sd, ARCHIVO_PENDIENTES)]
                            /\ UNCHANGED campos
                       ELSE /\ pc' = "rp_enviarHTTP"
                            /\ campos' = [t |-> SubSeq(t, 3, 7),
                                          cr |-> IF Len(t) = 7 THEN r.buffer.cr ELSE 0,
                                          linea |-> t]
                            /\ UNCHANGED <<pila, promocion>>
     ELSE /\ pc' = "rp_fin"
          /\ UNCHANGED <<pila, bufferLinea, campos, promocion, fallosSD>>
  /\ UNCHANGED <<sd, sdDisponible, contadorMediciones, millis, cortes, pendientes, intentos,
                 enviados, falloDrain, parametros, estadoSIM, localesLoop, fantasmas>>
  /\ UNCHANGED <<archivoLectura, entorno>>
  /\ ciclo' = IF pc' = "eliminarPrimeraLinea"
               THEN [ciclo EXCEPT !.descartes = Append(@, promocion'.linea)]
               ELSE ciclo

\* enviarHTTP of the parsed fields; on success the line is read again and
\* handed to marcarComoEnviado, on failure the loop is left.
rp_enviarHTTP ==
  /\ pc = "rp_enviarHTTP"
  /\ \E respuesta \in Red, abre \in Aperturas :
       LET e == enviarHTTP(respuesta)
           r == leerLineaN(sd, sdDisponible, abre, ARCHIVO_PENDIENTES, 0, bufferLinea)
       IN
       /\ ~abre => e.exitoso /\ ARCHIVO_PENDIENTES \in DOMAIN sd
       /\ fallosSD' = fallosSD + Falla(abre)
       /\ periodo' = e.periodo
       /\ acumula' = e.acumula
       /\ nEnvios' = nEnvios + 1
       /\ ultimoEnvio' = [linea |-> campos.linea, respuesta |-> respuesta.texto, ok |-> e.exitoso, origen |-> "drain"]
       /\ sometidos' = sometidos \cup {campos.linea}
       /\ acusados' = IF e.exitoso THEN acusados \cup {campos.linea} ELSE acusados
       /\ IF e.exitoso
          THEN /\ bufferLinea' = r.buffer
               /\ pc' = "marcarComoEnviado"
               /\ pila' = <<"rp_enviada">> \o pila
               /\ UNCHANGED falloDrain
          ELSE /\ falloDrain' = TRUE
               /\ pc' = "rp_fin"
               /\ UNCHANGED <<bufferLinea, pila>>
  /\ UNCHANGED <<sd, sdDisponible, contadorMediciones, millis, cortes, pendientes, intentos,
                 enviados, campos, promocion, estadoSIM, localesLoop, historial, noGuardados,
                 cortada>>
  /\ UNCHANGED <<archivoLectura, entorno>>
  /\ ciclo' = [ciclo EXCEPT !.enviosDrain = @ + 1,
                            !.primero = IF ciclo.enviosDrain = 0 THEN campos.linea ELSE @,
                            !.fallido = IF ultimoEnvio'.ok THEN @ ELSE campos.linea]

\* The same return to the loop head without "intentos++".
rp_continuar_sinContar ==
  /\ pc \in {"rp_descartada", "rp_enviada"}
  /\ enviados' = IF pc = "rp_enviada" THEN enviados + 1 ELSE enviados
  /\ intentos' = intentos
  /\ pc' = "rp_while"
  /\ cortada' = IF cortada.fase = "reejecutada" THEN [cortada EXCEPT !.fase = "vieja"] ELSE cortada
  /\ UNCHANGED <<pila, sd, sdDisponible, contadorMediciones, bufferLinea, millis, cortes,
                 fallosSD, pendientes, campos, falloDrain, promocion, parametros, estadoSIM,
                 localesLoop, historial, noGuardados, sometidos, acusados, nEnvios,
                 ultimoEnvio>>
  /\ UNCHANGED <<archivoLectura, entorno, ciclo>>

\* After eliminarPrimeraLinea (corrupt line) or marcarComoEnviado (sent line):
\* the counters, and back to the loop head.
rp_continuar ==
  /\ pc \in {"rp_descartada", "rp_enviada"}
  /\ enviados' = IF pc = "rp_enviada" THEN enviados + 1 ELSE enviados
  /\ intentos' = intentos + 1
  /\ pc' = "rp_while"
  /\ cortada' = IF cortada.fase = "reejecutada" THEN [cortada EXCEPT !.fase = "vieja"] ELSE cortada
  /\ UNCHANGED <<pila, sd, sdDisponible, contadorMediciones, bufferLinea, millis, cortes,
                 fallosSD, pendientes, campos, falloDrain, promocion, parametros, estadoSIM,
                 localesLoop, historial, noGuardados, sometidos, acusados, nEnvios,
                 ultimoEnvio>>
  /\ UNCHANGED <<archivoLectura, entorno, ciclo>>

\* After the loop: "Reenviados: n", return enviados.
rp_fin ==
  /\ pc = "rp_fin"
  /\ pc' = "leerEstado"
  /\ pendientes' = 0
  /\ intentos' = 0
  /\ enviados' = 0
  /\ campos' = CamposVacios
  /\ falloDrain' = FALSE
  /\ UNCHANGED <<pila, sd, sdDisponible, contadorMediciones, bufferLinea, millis, cortes,
                 fallosSD, promocion, parametros, estadoSIM, localesLoop, fantasmas>>
  /\ UNCHANGED <<archivoLectura, entorno, ciclo>>

(***************************************************************************)
(* marcarComoEnviado(linea) and eliminarPrimeraLinea(ARCHIVO_PENDIENTES).  *)
(* Data written through a File is part of the file once close() has run;   *)
(* each open .. close section is one step.                                 *)
(***************************************************************************)
\* Return to the caller of the promotion or of the discard.
Retorno(exito) ==
  /\ pc' = Head(pila)
  /\ pila' = Tail(pila)
  /\ promocion' = PromocionNinguna
  /\ cortada' = IF exito /\ cortada.fase = "pendiente"
                THEN [cortada EXCEPT !.fase = "reejecutada"] ELSE cortada

\* enviados.println(linea), then the call of eliminarPrimeraLinea.
marcarComoEnviado ==
  /\ pc = "marcarComoEnviado"
  /\ \E abre \in Aperturas :
       /\ ~abre => sdDisponible
       /\ fallosSD' = fallosSD + Falla(abre)
       /\ IF sdDisponible /\ abre
          THEN /\ sd' = Anexar(sd, ARCHIVO_ENVIADOS, <<Impresa(bufferLinea)>>)
               /\ pc' = "eliminarPrimeraLinea"
               /\ promocion' = [fase |-> "promocion", linea |-> bufferLinea.t,
                                antes |-> Contenido(sd, ARCHIVO_PENDIENTES)]
               /\ UNCHANGED <<pila, cortada>>
          ELSE /\ sd' = sd
               /\ Retorno(FALSE)
  /\ UNCHANGED <<sdDisponible, contadorMediciones, bufferLinea, millis, cortes,
                 parametros, estadoSIM, localesDrain, localesLoop,
                 historial, noGuardados, sometidos, acusados, nEnvios, ultimoEnvio>>
  /\ UNCHANGED <<archivoLectura, entorno, ciclo>>

\* Open origen and temp.tmp, copy every line but the first, close both.
eliminarPrimeraLinea ==
  /\ pc = "eliminarPrimeraLinea"
  /\ \E aOrigen \in BOOLEAN, aDestino \in BOOLEAN :
       /\ ~aOrigen => sdDisponible /\ ARCHIVO_PENDIENTES \in DOMAIN sd /\ aDestino
       /\ ~aDestino => sdDisponible /\ ARCHIVO_PENDIENTES \in DOMAIN sd
       /\ Presupuesto(<<aOrigen, aDestino>>)
       /\ fallosSD' = fallosSD + Fallos(<<aOrigen, aDestino>>)
       /\ IF sdDisponible /\ ARCHIVO_PENDIENTES \in DOMAIN sd /\ aOrigen /\ aDestino
          THEN /\ sd' = Anexar(sd, ArchivoTemp,
                               IF sd[ARCHIVO_PENDIENTES] = <<>> THEN <<>>
                               ELSE Tail(sd[ARCHIVO_PENDIENTES]))
               /\ pc' = "el_remove"
               /\ UNCHANGED <<pila, promocion, cortada>>
          ELSE /\ sd' = sd
               /\ Retorno(FALSE)
  /\ UNCHANGED <<sdDisponible, contadorMediciones, bufferLinea, millis, cortes,
                 parametros, estadoSIM, localesDrain, localesLoop,
                 historial, noGuardados, sometidos, acusados, nEnvios, ultimoEnvio>>
  /\ UNCHANGED <<archivoLectura, entorno, ciclo>>

\* SD.remove(nombreArchivo)
el_remove ==
  /\ pc = "el_remove"
  /\ sd' = Remover(sd, ARCHIVO_PENDIENTES)
  /\ pc' = "el_copiar"
  /\ UNCHANGED <<pila, sdDisponible, contadorMediciones, bufferLinea, millis, cortes,
                 fallosSD, promocion, parametros, estadoSIM, localesDrain, localesLoop,
                 fantasmas>>
  /\ UNCHANGED <<archivoLectura, entorno, ciclo>>

\* Open temp.tmp for reading and the original for writing, copy, close both.
el_copiar ==
  /\ pc = "el_copiar"
  /\ \E aTemp \in BOOLEAN, aOriginal \in BOOLEAN :
       /\ Presupuesto(<<aTemp, aOriginal>>)
       /\ fallosSD' = fallosSD + Fallos(<<aTemp, aOriginal>>)
       /\ LET creado == IF aOriginal THEN Anexar(sd, ARCHIVO_PENDIENTES, <<>>) ELSE sd IN
          IF aTemp /\ aOriginal /\ ArchivoTemp \in DOMAIN sd
          THEN /\ sd' = Anexar(sd, ARCHIVO_PENDIENTES, sd[ArchivoTemp])
               /\ pc' = "el_removeTemp"
               /\ UNCHANGED <<pila, promocion, cortada>>
          ELSE /\ sd' = creado
               /\ Retorno(FALSE)
  /\ UNCHANGED <<sdDisponible, contadorMediciones, bufferLinea, millis, cortes,
                 parametros, estadoSIM, localesDrain, localesLoop,
                 historial, noGuardados, sometidos, acusados, nEnvios, ultimoEnvio>>
  /\ UNCHANGED <<archivoLectura, entorno, ciclo>>

\* SD.remove(temp); return true.
el_removeTemp ==
  /\ pc = "el_removeTemp"
  /\ sd' = Remover(sd, ArchivoTemp)
  /\ Retorno(TRUE)
  /\ UNCHANGED <<sdDisponible, contadorMediciones, bufferLinea, millis, cortes, fallosSD,
                 parametros, estadoSIM, localesDrain, localesLoop,
                 historial, noGuardados, sometidos, acusados, nEnvios, ultimoEnvio>>
  /\ UNCHANGED <<archivoLectura, entorno, ciclo>>

(***************************************************************************)
(* loop(): status, measurements, save and send.                            *)
(***************************************************************************)
\* leerBateria(), leerCobertura() and the first measurement.
leerEstado ==
  /\ pc = "leerEstado"
  /\ \E cbc \in entorno.cbc, csq \in RespuestasCSQ, m \in Muestras :
       /\ porcentaje' = cbc.porcentaje
       /\ voltios' = cbc.voltios
       /\ contador_bateria_baja' = leerBateria(contador_bateria_baja, cbc.voltios)
       /\ cobertura' = csq
       /\ buffers' = [temp |-> m.temp, cond |-> m.cond, bat |-> Dec(cbc.porcentaje),
                      volt |-> Dec(cbc.voltios), cob |-> Dec(csq)]
  /\ iAcumula' = 1
  /\ pc' = "acumular"
  /\ UNCHANGED <<pila, sd, sdDisponible, contadorMediciones, bufferLinea, millis, cortes,
                 fallosSD, guardado, promocion, parametros, localesDrain, fantasmas>>
  /\ UNCHANGED <<archivoLectura, entorno, ciclo>>

\* One round of "for (int i = 1; i < acumula; i++)", or its exit.
acumular ==
  /\ pc = "acumular"
  /\ IF iAcumula < acumula
     THEN /\ \E cbc \in entorno.cbc, csq \in RespuestasCSQ, m \in Muestras :
               /\ porcentaje' = cbc.porcentaje
               /\ voltios' = cbc.voltios
               /\ contador_bateria_baja' = leerBateria(contador_bateria_baja, cbc.voltios)
               /\ cobertura' = csq
               /\ buffers' = [temp |-> buffers.temp \o "|" \o m.temp,
                              cond |-> buffers.cond \o "|" \o m.cond,
                              bat |-> buffers.bat \o "|" \o Dec(cbc.porcentaje),
                              volt |-> buffers.volt \o "|" \o Dec(cbc.voltios),
                              cob |-> buffers.cob \o "|" \o Dec(csq)]
          /\ iAcumula' = iAcumula + 1
          /\ pc' = "acumular"
     ELSE /\ pc' = "guardarMedicion"
          /\ UNCHANGED <<estadoSIM, buffers, iAcumula>>
  /\ UNCHANGED <<pila, sd, sdDisponible, contadorMediciones, bufferLinea, millis, cortes,
                 fallosSD, guardado, promocion, parametros, localesDrain, fantasmas>>
  /\ UNCHANGED <<archivoLectura, entorno, ciclo>>

\* The record that loop() saves and sends in this cycle.
RegistroNuevo(id) ==
  <<Dec(id), Dec(millis), buffers.temp, buffers.cond, buffers.bat, buffers.volt, buffers.cob>>

\* The save of loop() moved behind the send: the measurement is submitted
\* first and appended to pendient.csv at the end of the cycle.
guardarMedicion_trasEnvio ==
  \/ /\ pc = "guardarMedicion"
     /\ contadorMediciones' = contadorMediciones + 1
     /\ pc' = "loop_enviarHTTP"
     /\ UNCHANGED <<pila, sd, sdDisponible, bufferLinea, millis, cortes, fallosSD, promocion,
                    parametros, estadoSIM, localesDrain, localesLoop, fantasmas,
                    archivoLectura, entorno, ciclo>>
  \/ /\ pc = "loop_fin"
     /\ sdDisponible
     /\ sd' = Anexar(sd, ARCHIVO_PENDIENTES, <<Linea(RegistroNuevo(contadorMediciones))>>)
     /\ historial' = Append(historial, RegistroNuevo(contadorMediciones))
     /\ pc' = "loop"
     /\ buffers' = BuffersVacios
     /\ iAcumula' = 0
     /\ guardado' = FALSE
     /\ UNCHANGED <<pila, sdDisponible, contadorMediciones, bufferLinea, millis, cortes,
                    fallosSD, promocion, parametros, estadoSIM, localesDrain, noGuardados,
                    sometidos, acusados, nEnvios, ultimoEnvio, cortada, archivoLectura,
                    entorno, ciclo>>

\* guardarMedicion without its first line, "if (!sdDisponible) return false":
\* the append is tried whatever setup() found.
guardarMedicion_sinGuarda ==
  /\ pc = "guardarMedicion"
  /\ contadorMediciones' = contadorMediciones + 1
  /\ \E abre \in BOOLEAN, aLog1 \in BOOLEAN, aLog2 \in BOOLEAN :
       /\ ~abre => sdDisponible
       /\ ~aLog1 => sdDisponible /\ ~abre
       /\ ~aLog2 => sdDisponible /\ ~abre
       /\ Presupuesto(<<abre, aLog1, aLog2>>)
       /\ fallosSD' = fallosSD + Fallos(<<abre, aLog1, aLog2>>)
       /\ guardado' = abre
       /\ IF abre
          THEN /\ sd' = Anexar(sd, ARCHIVO_PENDIENTES,
                               <<Linea(RegistroNuevo(contadorMediciones + 1))>>)
               /\ historial' = Append(historial, RegistroNuevo(contadorMediciones + 1))
               /\ UNCHANGED noGuardados
          ELSE /\ sd' = escribirLog(
                          escribirLog(sd, sdDisponible, aLog1, "ERROR: Fallo apertura pendientes"),
                          sdDisponible, aLog2, "ERROR: Fallo guardado")
               /\ noGuardados' = noGuardados \cup {RegistroNuevo(contadorMediciones + 1)}
               /\ UNCHANGED historial
  /\ pc' = "loop_enviarHTTP"
  /\ UNCHANGED <<pila, sdDisponible, bufferLinea, millis, cortes, buffers, iAcumula,
                 promocion, parametros, estadoSIM, localesDrain,
                 sometidos, acusados, nEnvios, ultimoEnvio, cortada>>
  /\ UNCHANGED <<archivoLectura, entorno, ciclo>>

\* guardarMedicion with an SD.open that truncates pendient.csv instead of
\* positioning at its end.
guardarMedicion_truncando ==
  /\ pc = "guardarMedicion"
  /\ contadorMediciones' = contadorMediciones + 1
  /\ \E abre \in BOOLEAN, aLog1 \in BOOLEAN, aLog2 \in BOOLEAN :
       /\ ~abre => sdDisponible
       /\ ~aLog1 => sdDisponible /\ ~abre
       /\ ~aLog2 => sdDisponible /\ ~abre
       /\ Presupuesto(<<abre, aLog1, aLog2>>)
       /\ fallosSD' = fallosSD + Fallos(<<abre, aLog1, aLog2>>)
       /\ guardado' = (sdDisponible /\ abre)
       /\ IF sdDisponible /\ abre
          THEN /\ sd' = Anexar(Remover(sd, ARCHIVO_PENDIENTES), ARCHIVO_PENDIENTES,
                               <<Linea(RegistroNuevo(contadorMediciones + 1))>>)
               /\ historial' = Append(historial, RegistroNuevo(contadorMediciones + 1))
               /\ UNCHANGED noGuardados
          ELSE /\ sd' = escribirLog(
                          escribirLog(sd, sdDisponible, aLog1, "ERROR: Fallo apertura pendientes"),
                          sdDisponible, aLog2, "ERROR: Fallo guardado")
               /\ noGuardados' = noGuardados \cup {RegistroNuevo(contadorMediciones + 1)}
               /\ UNCHANGED historial
  /\ pc' = "loop_enviarHTTP"
  /\ UNCHANGED <<pila, sdDisponible, bufferLinea, millis, cortes, buffers, iAcumula,
                 promocion, parametros, estadoSIM, localesDrain,
                 sometidos, acusados, nEnvios, ultimoEnvio, cortada>>
  /\ UNCHANGED <<archivoLectura, entorno, ciclo>>

\* guardarMedicion followed by a loop() that submits the measurement only
\* when it was saved.
guardarMedicion_sinEnvio ==
  /\ pc = "guardarMedicion"
  /\ contadorMediciones' = contadorMediciones + 1
  /\ \E abre \in BOOLEAN, aLog1 \in BOOLEAN, aLog2 \in BOOLEAN :
       /\ ~abre => sdDisponible
       /\ ~aLog1 => sdDisponible /\ ~abre
       /\ ~aLog2 => sdDisponible /\ ~abre
       /\ Presupuesto(<<abre, aLog1, aLog2>>)
       /\ fallosSD' = fallosSD + Fallos(<<abre, aLog1, aLog2>>)
       /\ guardado' = (sdDisponible /\ abre)
       /\ pc' = IF sdDisponible /\ abre THEN "loop_enviarHTTP" ELSE "loop_fin"
       /\ IF sdDisponible /\ abre
          THEN /\ sd' = Anexar(sd, ARCHIVO_PENDIENTES,
                               <<Linea(RegistroNuevo(contadorMediciones + 1))>>)
               /\ historial' = Append(historial, RegistroNuevo(contadorMediciones + 1))
               /\ UNCHANGED noGuardados
          ELSE /\ sd' = escribirLog(
                          escribirLog(sd, sdDisponible, aLog1, "ERROR: Fallo apertura pendientes"),
                          sdDisponible, aLog2, "ERROR: Fallo guardado")
               /\ noGuardados' = noGuardados \cup {RegistroNuevo(contadorMediciones + 1)}
               /\ UNCHANGED historial
  /\ UNCHANGED <<pila, sdDisponible, bufferLinea, millis, cortes, buffers, iAcumula,
                 promocion, parametros, estadoSIM, localesDrain,
                 sometidos, acusados, nEnvios, ultimoEnvio, cortada>>
  /\ UNCHANGED <<archivoLectura, entorno, ciclo>>

\* The id counter advanced inside the save, after the file was opened: a
\* measurement that could not be appended does not consume an id.
guardarMedicion_soloGuardado ==
  /\ pc = "guardarMedicion"
  /\ \E abre \in BOOLEAN, aLog1 \in BOOLEAN, aLog2 \in BOOLEAN :
       /\ ~abre => sdDisponible
       /\ ~aLog1 => sdDisponible /\ ~abre
       /\ ~aLog2 => sdDisponible /\ ~abre
       /\ Presupuesto(<<abre, aLog1, aLog2>>)
       /\ fallosSD' = fallosSD + Fallos(<<abre, aLog1, aLog2>>)
       /\ guardado' = (sdDisponible /\ abre)
       /\ contadorMediciones' = IF sdDisponible /\ abre THEN contadorMediciones + 1
                               ELSE contadorMediciones
       /\ IF sdDisponible /\ abre
          THEN /\ sd' = Anexar(sd, ARCHIVO_PENDIENTES,
                               <<Linea(RegistroNuevo(contadorMediciones + 1))>>)
               /\ historial' = Append(historial, RegistroNuevo(contadorMediciones + 1))
               /\ UNCHANGED noGuardados
          ELSE /\ sd' = escribirLog(
                          escribirLog(sd, sdDisponible, aLog1, "ERROR: Fallo apertura pendientes"),
                          sdDisponible, aLog2, "ERROR: Fallo guardado")
               /\ noGuardados' = noGuardados \cup {RegistroNuevo(contadorMediciones + 1)}
               /\ UNCHANGED historial
  /\ pc' = "loop_enviarHTTP"
  /\ UNCHANGED <<pila, sdDisponible, bufferLinea, millis, cortes, buffers, iAcumula,
                 promocion, parametros, estadoSIM, localesDrain,
                 sometidos, acusados, nEnvios, ultimoEnvio, cortada>>
  /\ UNCHANGED <<archivoLectura, entorno, ciclo>>

\* contadorMediciones++, guardarMedicion(...) and the log line of a failed save.
guardarMedicion ==
  /\ pc = "guardarMedicion"
  /\ contadorMediciones' = contadorMediciones + 1
  /\ \E abre \in BOOLEAN, aLog1 \in BOOLEAN, aLog2 \in BOOLEAN :
       /\ ~abre => sdDisponible
       /\ ~aLog1 => sdDisponible /\ ~abre
       /\ ~aLog2 => sdDisponible /\ ~abre
       /\ Presupuesto(<<abre, aLog1, aLog2>>)
       /\ fallosSD' = fallosSD + Fallos(<<abre, aLog1, aLog2>>)
       /\ guardado' = (sdDisponible /\ abre)
       /\ IF sdDisponible /\ abre
          THEN /\ sd' = Anexar(sd, ARCHIVO_PENDIENTES,
                               <<Linea(RegistroNuevo(contadorMediciones + 1))>>)
               /\ historial' = Append(historial, RegistroNuevo(contadorMediciones + 1))
               /\ UNCHANGED noGuardados
          ELSE /\ sd' = escribirLog(
                          escribirLog(sd, sdDisponible, aLog1, "ERROR: Fallo apertura pendientes"),
                          sdDisponible, aLog2, "ERROR: Fallo guardado")
               /\ noGuardados' = noGuardados \cup {RegistroNuevo(contadorMediciones + 1)}
               /\ UNCHANGED historial
  /\ pc' = "loop_enviarHTTP"
  /\ UNCHANGED <<pila, sdDisponible, bufferLinea, millis, cortes, buffers, iAcumula,
                 promocion, parametros, estadoSIM, localesDrain,
                 sometidos, acusados, nEnvios, ultimoEnvio, cortada>>
  /\ UNCHANGED <<archivoLectura, entorno, ciclo>>

\* enviarHTTP of the new measurement and "if (enviado && guardado) ... else if (!enviado)".
loop_enviarHTTP ==
  /\ pc = "loop_enviarHTTP"
  /\ \E respuesta \in Red, aContar \in BOOLEAN, aLeer \in BOOLEAN, aLog \in BOOLEAN :
       LET e == enviarHTTP(respuesta)
           promueve == e.exitoso /\ guardado
           numLineas == contarLineas(sd, sdDisponible, aContar, ARCHIVO_PENDIENTES)
           r == leerLineaN(sd, sdDisponible, aLeer, ARCHIVO_PENDIENTES, numLineas - 1,
                           bufferLinea)
       IN
       /\ ~aContar => promueve /\ ARCHIVO_PENDIENTES \in DOMAIN sd
       /\ ~aLeer => promueve /\ numLineas > 1
       /\ ~aLog => ~e.exitoso /\ sdDisponible
       /\ Presupuesto(<<aContar, aLeer, aLog>>)
       /\ fallosSD' = fallosSD + Fallos(<<aContar, aLeer, aLog>>)
       /\ periodo' = e.periodo
       /\ acumula' = e.acumula
       /\ nEnvios' = nEnvios + 1
       /\ ultimoEnvio' = [linea |-> RegistroNuevo(contadorMediciones), respuesta |-> respuesta.texto, ok |-> e.exitoso,
                          origen |-> "loop"]
       /\ sometidos' = sometidos \cup {RegistroNuevo(contadorMediciones)}
       /\ acusados' = IF e.exitoso THEN acusados \cup {RegistroNuevo(contadorMediciones)}
                      ELSE acusados
       /\ IF promueve /\ numLineas > 1
          THEN \* ">1 porque la primera es el encabezado"
               /\ bufferLinea' = r.buffer
               /\ pc' = "marcarComoEnviado"
               /\ pila' = <<"loop_fin">> \o pila
               /\ sd' = sd
          ELSE /\ sd' = IF e.exitoso THEN sd
                        ELSE escribirLog(sd, sdDisponible, aLog, "Envio fallido, en cola")
               /\ pc' = "loop_fin"
               /\ UNCHANGED <<bufferLinea, pila>>
  /\ UNCHANGED <<sdDisponible, contadorMediciones, millis, cortes, promocion, estadoSIM,
                 localesDrain, localesLoop, historial, noGuardados, cortada>>
  /\ UNCHANGED <<archivoLectura, entorno>>
  /\ ciclo' = [ciclo EXCEPT !.enviosLoop = @ + 1]

\* End of loop(): the SIM800 goes back to sleep and loop() returns.
loop_fin ==
  /\ pc = "loop_fin"
  /\ pc' = "loop"
  /\ buffers' = BuffersVacios
  /\ iAcumula' = 0
  /\ guardado' = FALSE
  /\ cortada' = IF cortada.fase = "reejecutada" THEN [cortada EXCEPT !.fase = "vieja"] ELSE cortada
  /\ UNCHANGED <<pila, sd, sdDisponible, contadorMediciones, bufferLinea, millis, cortes,
                 fallosSD, promocion, parametros, estadoSIM, localesDrain,
                 historial, noGuardados, sometidos, acusados, nEnvios, ultimoEnvio>>
  /\ ciclo' = [CicloNuevo EXCEPT !.previo = ciclo.fallido]
  /\ UNCHANGED <<archivoLectura, entorno>>

(***************************************************************************)
(* Power loss: the volume keeps its files, the program restarts at setup() *)
(* with its globals at their initializers.                                 *)
(***************************************************************************)
cortePotencia ==
  /\ pc \notin {"setup", "apagado"}
  /\ Restantes > 0
  /\ cortes' = cortes + 1
  /\ pc' = "setup"
  /\ Rearranque
  /\ cortada' = IF promocion.fase # "ninguna"
                THEN [fase |-> "reciente", clase |-> promocion.fase, linea |-> promocion.linea,
                      antes |-> promocion.antes, etapa |-> pc]
                ELSE cortada
  /\ UNCHANGED <<sd, millis, fallosSD, historial, noGuardados, sometidos, acusados, nEnvios,
                 ultimoEnvio>>
  /\ UNCHANGED <<archivoLectura, entorno>>
  /\ ciclo' = CicloNuevo

Next ==
  \/ setup
  \/ loop
  \/ reintentarPendientes
  \/ rp_while
  \/ rp_enviarHTTP
  \/ rp_continuar
  \/ rp_fin
  \/ marcarComoEnviado
  \/ eliminarPrimeraLinea
  \/ el_remove
  \/ el_copiar
  \/ el_removeTemp
  \/ leerEstado
  \/ acumular
  \/ guardarMedicion
  \/ loop_enviarHTTP
  \/ loop_fin
  \/ cortePotencia

Spec == Init /\ [][Next]_vars

(***************************************************************************)
(* A longer run of the same program from power-up, without storage errors  *)
(* and without power loss, on a network that recovers: a submit may fail   *)
(* only among the first SubmitsConFallo of the run.  loop() is called      *)
(* again and again by the Arduino core and no step of the program waits    *)
(* for anything but a timeout, so every enabled step is eventually taken.  *)
(***************************************************************************)
MaxCiclosLargo == 5

EntornoLargo ==
  [ciclos |-> MaxCiclosLargo, fallos |-> 0, cbc |-> RespuestasCBC, red |-> "recuperada"]

InitLargo ==
  /\ Arranque
  /\ entorno = EntornoLargo

\* The steps of the program itself.
Programa ==
  \/ setup
  \/ loop
  \/ reintentarPendientes
  \/ rp_while
  \/ rp_enviarHTTP
  \/ rp_continuar
  \/ rp_fin
  \/ marcarComoEnviado
  \/ eliminarPrimeraLinea
  \/ el_remove
  \/ el_copiar
  \/ el_removeTemp
  \/ leerEstado
  \/ acumular
  \/ guardarMedicion
  \/ loop_enviarHTTP
  \/ loop_fin

SpecLargo == InitLargo /\ [][Programa]_vars /\ WF_vars(Programa)

(***************************************************************************)
(* A run on a battery that stays low: every reply to AT+CBC reports a      *)
(* voltage between 3000 and 3300 mV.  The network is down for the whole    *)
(* run, or up for the whole run; no storage error, no power loss.          *)
(***************************************************************************)
MaxCiclosBateria == 28

BateriaBaja == [porcentaje |-> 15, voltios |-> 3100]

EntornosBateria ==
  { [ciclos |-> MaxCiclosBateria, fallos |-> 0, cbc |-> {BateriaBaja}, red |-> r] :
      r \in {"caida", "buena"} }

InitBateria ==
  /\ Arranque
  /\ entorno \in EntornosBateria

SpecBateria == InitBateria /\ [][Programa]_vars

(***************************************************************************)
(* Power-up on a card that an earlier run has left behind, possibly with   *)
(* damaged lines in pendient.csv: line i of the backlog is the measurement *)
(* with id i of the earlier run, or what is left of it (its first three    *)
(* fields, or its first field alone).  No storage error, no power loss.    *)
(***************************************************************************)
MaxCiclosTarjeta == 2
MaxLineasTarjeta == 4

Vieja(i) == <<Dec(i), Dec(100 + i), "20.5", "1413.0", "80", "3700", "20">>

LineasTarjeta(i) ==
  { Linea(Vieja(i)), Linea(SubSeq(Vieja(i), 1, 3)), Linea(SubSeq(Vieja(i), 1, 1)) }

Atrasos ==
  UNION { { a \in [1..n -> UNION {LineasTarjeta(i) : i \in 1..n}] :
              \A i \in 1..n : a[i] \in LineasTarjeta(i) } : n \in 1..MaxLineasTarjeta }

Tarjetas ==
  { (ARCHIVO_PENDIENTES :> (cabeza \o a)) @@ (ARCHIVO_ENVIADOS :> <<Linea(Encabezado)>>)
      @@ (ARCHIVO_LOG :> <<Linea(<<"=== LOG DEL SISTEMA ===">>)>>) :
      cabeza \in {<<>>, <<Linea(Encabezado)>>}, a \in Atrasos }

EntornoTarjeta ==
  [ciclos |-> MaxCiclosTarjeta, fallos |-> 0, cbc |-> RespuestasCBC, red |-> "libre"]

InitTarjeta ==
  /\ Encendido
  /\ sd \in Tarjetas
  /\ historial = SelectSeq([i \in DOMAIN sd[ARCHIVO_PENDIENTES] |-> sd[ARCHIVO_PENDIENTES][i].t],
                           LAMBDA t : Len(t) = 7 /\ t # Encabezado)
  /\ entorno = EntornoTarjeta

SpecTarjeta == InitTarjeta /\ [][Programa]_vars

(***************************************************************************)
(* Power-up on such a card in the field: SD.open may fail while the budget *)
(* of faults lasts and any submit may fail.  No power loss.  As in the     *)
(* longer run, every enabled step of the program is eventually taken.      *)
(***************************************************************************)
EntornoAverias ==
  [ciclos |-> MaxCiclosTarjeta, fallos |-> MaxFallos, cbc |-> RespuestasCBC, red |-> "libre"]

\* The cards whose pendient.csv holds at most MaxLineasAverias lines.
MaxLineasAverias == 3

TarjetasCortas == {s \in Tarjetas : Len(s[ARCHIVO_PENDIENTES]) <= MaxLineasAverias}

InitAverias ==
  /\ Encendido
  /\ sd \in TarjetasCortas
  /\ historial = SelectSeq([i \in DOMAIN sd[ARCHIVO_PENDIENTES] |-> sd[ARCHIVO_PENDIENTES][i].t],
                           LAMBDA t : Len(t) = 7 /\ t # Encabezado)
  /\ entorno = EntornoAverias

SpecAverias == InitAverias /\ [][Programa]_vars /\ WF_vars(Programa)

(***************************************************************************)
(* A run of the two-file program from power-up in which the server may     *)
(* answer a submit with any reply of TextosParametros.  No storage error,  *)
(* no power loss.                                                          *)
(***************************************************************************)
MaxCiclosParametros == 2

EntornoParametros ==
  [ciclos |-> MaxCiclosParametros, fallos |-> 0, cbc |-> RespuestasCBC, red |-> "parametros"]

InitParametros ==
  /\ Arranque
  /\ entorno = EntornoParametros

SpecParametros == InitParametros /\ [][Programa]_vars

(***************************************************************************)
(* SD_HTTP_SIM800.ino: the single-file program.  datos.csv holds every     *)
(* measurement with a trailing state field, PENDIENTE or ENVIADO.  This    *)
(* program is modelled without storage errors after setup() and without    *)
(* power loss.                                                             *)
(***************************************************************************)
ArchivoDatos == "datos.csv"
ArchivoTempH == "temp.csv"
PeriodoInicialH == 10
AcumulaInicialH == 3
UmbralBateriaH == 25
PeriodoPorDefecto == 60
AcumulaPorDefecto == 1
MaxId == 9
EncabezadoH ==
  <<"ID", "Timestamp", "Temperatura", "Conductividad", "Bateria", "Voltaje", "Cobertura",
    "Estado">>

\* String::toInt() of a field: 0 when the field is not a number.
toInt(campo) ==
  IF \E n \in 0..MaxId : Dec(n) = campo THEN CHOOSE n \in 0..MaxId : Dec(n) = campo ELSE 0

\* linea.indexOf("PENDIENTE") > 0
esPendiente(l) == Len(l.t) > 1 /\ \E k \in 2..Len(l.t) : l.t[k] = "PENDIENTE"

\* One line of the rewrite of marcarComoEnviado(id): the line of that id
\* gets the state ENVIADO in place of its last field (and of its '\r'); any
\* other line is printed again as it was read.
marcarLinea(l, id) ==
  IF Len(l.t) > 1 /\ l.t[1] = Dec(id)
  THEN [t |-> [l.t EXCEPT ![Len(l.t)] = "ENVIADO"], cr |-> 1]
  ELSE Impresa(l)

\* marcarComoEnviado(unsigned long id) of the single-file program: the file
\* after temp.csv has been written, datos.csv removed, temp.csv copied back
\* and removed.
marcarComoEnviadoH(s, disponible, id) ==
  IF ~disponible THEN s
  ELSE IF ArchivoDatos \notin DOMAIN s THEN Anexar(Remover(s, ArchivoTempH), ArchivoTempH, <<>>)
  ELSE [g \in DOMAIN s \ {ArchivoTempH} |->
          IF g = ArchivoDatos THEN [i \in DOMAIN s[g] |-> marcarLinea(s[g][i], id)] ELSE s[g]]

GetBateria(contador, v) ==
  IF v > 3000 /\ v < 3300 THEN contador + 1
  ELSE IF v > 3300 /\ v < 4200 THEN 0 ELSE contador

\* The parse of the reply at the end of loop(): periodo and acumula.
parametrosH(respuesta, p, a) ==
  LET p1 == IF Len(respuesta.valores) >= 1 THEN respuesta.valores[1] ELSE p
      a1 == IF Len(respuesta.valores) >= 2 THEN respuesta.valores[2] ELSE a
  IN IF p1 = 0 \/ a1 = 0
     THEN [periodo |-> PeriodoPorDefecto, acumula |-> AcumulaPorDefecto]
     ELSE [periodo |-> p1, acumula |-> a1]

\* Power-up of the single-file program on a fresh volume.
ArranqueH ==
  /\ pc = "H_setup"
  /\ pila = <<>>
  /\ sdDisponible = FALSE
  /\ contadorMediciones = 0
  /\ contador_bateria_baja = 0
  /\ periodo = PeriodoInicialH
  /\ acumula = AcumulaInicialH
  /\ voltios = 0
  /\ porcentaje = 0
  /\ cobertura = 0
  /\ bufferLinea = BufferVacio
  /\ pendientes = 0
  /\ intentos = 0
  /\ enviados = 0
  /\ campos = CamposVacios
  /\ buffers = BuffersVacios
  /\ iAcumula = 0
  /\ guardado = FALSE
  /\ falloDrain = FALSE
  /\ promocion = PromocionNinguna
  /\ sd = <<>>
  /\ millis = 0
  /\ cortes = 0
  /\ fallosSD = 0
  /\ historial = <<>>
  /\ noGuardados = {}
  /\ sometidos = {}
  /\ acusados = {}
  /\ nEnvios = 0
  /\ ultimoEnvio = [linea |-> <<>>, respuesta |-> "", ok |-> FALSE, origen |-> "ninguno"]
  /\ cortada = [fase |-> "ninguna", clase |-> "", linea |-> <<>>, antes |-> <<>>, etapa |-> ""]
  /\ archivoLectura = ArchivoCerrado
  /\ ciclo = CicloNuevo

InitH ==
  /\ ArranqueH
  /\ entorno = EntornoCampo

\* Variables that only the two-file program uses.
ajenasH == <<pila, bufferLinea, pendientes, cortes, fallosSD, promocion, entorno, ciclo>>

setupH ==
  /\ pc = "H_setup"
  /\ \E begin \in BOOLEAN :
       /\ sdDisponible' = begin
       /\ LET s1 == IF begin /\ ArchivoDatos \notin DOMAIN sd
                    THEN Anexar(sd, ArchivoDatos, <<Linea(EncabezadoH)>>) ELSE sd
              s2 == IF begin /\ ARCHIVO_LOG \notin DOMAIN s1
                    THEN Anexar(s1, ARCHIVO_LOG, <<Linea(<<"=== LOG DEL SISTEMA ===">>)>>) ELSE s1
          IN sd' = s2
  /\ pc' = "H_loop"
  /\ UNCHANGED <<contadorMediciones, millis, parametros, estadoSIM, localesLoop, intentos,
                 enviados, campos, falloDrain, archivoLectura, fantasmas, ajenasH>>

\* loop(): battery gate.
loopH ==
  /\ pc = "H_loop"
  /\ millis < MaxCiclos
  /\ millis' = millis + 1
  /\ IF contador_bateria_baja > UmbralBateriaH
     THEN /\ sd' = IF sdDisponible
                   THEN Anexar(sd, ARCHIVO_LOG, <<Linea(<<"SHUTDOWN: Bateria critica">>)>>)
                   ELSE sd
          /\ pc' = "H_apagado"
     ELSE /\ pc' = "reintentarEnviosPendientes"
          /\ sd' = sd
  /\ UNCHANGED <<sdDisponible, contadorMediciones, parametros, estadoSIM, localesLoop, intentos,
                 enviados, campos, falloDrain, archivoLectura, fantasmas, ajenasH>>

\* reintentarEnviosPendientes(): the guard and the opening of datos.csv.
reintentarEnviosPendientes ==
  /\ pc = "reintentarEnviosPendientes"
  /\ IF sdDisponible /\ ArchivoDatos \in DOMAIN sd
     THEN /\ archivoLectura' = [abierto |-> TRUE, leidas |-> 0, resto |-> sd[ArchivoDatos]]
          /\ pc' = "re_while"
     ELSE /\ pc' = "H_leerEstado"
          /\ UNCHANGED <<archivoLectura, entorno>>
  /\ enviados' = 0
  /\ intentos' = 0
  /\ falloDrain' = FALSE
  /\ UNCHANGED <<sd, sdDisponible, contadorMediciones, millis, parametros, estadoSIM,
                 localesLoop, campos, fantasmas, ajenasH>>

\* One round of "while (archivoLectura.available() && intentos < MAX_REINTENTOS)"
\* up to the end of a line, or the exit of the loop.  After marcarComoEnviado
\* has removed and rewritten datos.csv, what the open handle still delivers is
\* not defined: the rest of the old content, the rest of the new content, or
\* nothing.
re_while ==
  /\ pc = "re_while"
  /\ IF archivoLectura.resto # <<>> /\ intentos < MAX_REINTENTOS
     THEN LET l == Head(archivoLectura.resto)
              leidas == archivoLectura.leidas + 1
              avanza == [archivoLectura EXCEPT !.leidas = leidas, !.resto = Tail(@)]
          IN
          IF esPendiente(l)
          THEN \E respuesta \in Red :
                 LET id == toInt(l.t[1])
                     registro == SubSeq(l.t, 1, Len(l.t) - 1)
                     nuevo == marcarComoEnviadoH(sd, sdDisponible, id)
                 IN
                 /\ intentos' = intentos + 1
                 /\ campos' = [t |-> SubSeq(l.t, 3, Len(l.t) - 1), cr |-> 0, linea |-> l.t]
                 /\ nEnvios' = nEnvios + 1
                 /\ ultimoEnvio' = [linea |-> registro, respuesta |-> respuesta.texto, ok |-> respuesta.marca,
                                    origen |-> "drain"]
                 /\ sometidos' = sometidos \cup {registro}
                 /\ acusados' = IF respuesta.marca THEN acusados \cup {registro} ELSE acusados
                 /\ IF respuesta.marca
                    THEN /\ sd' = nuevo
                         /\ enviados' = enviados + 1
                         /\ \E resto \in { avanza.resto,
                                           SubSeq(nuevo[ArchivoDatos], leidas + 1,
                                                  Len(nuevo[ArchivoDatos])),
                                           <<>> } :
                              archivoLectura' = [avanza EXCEPT !.resto = resto]
                         /\ UNCHANGED falloDrain
                    ELSE /\ falloDrain' = TRUE
                         /\ archivoLectura' = avanza
                         /\ UNCHANGED <<sd, enviados>>
                 /\ pc' = "re_while"
          ELSE /\ archivoLectura' = avanza
               /\ pc' = "re_while"
               /\ UNCHANGED <<sd, intentos, enviados, campos, falloDrain, nEnvios, ultimoEnvio,
                              sometidos, acusados>>
     ELSE /\ archivoLectura' = ArchivoCerrado
          /\ pc' = "H_leerEstado"
          /\ falloDrain' = FALSE
          /\ enviados' = 0
          /\ intentos' = 0
          /\ campos' = CamposVacios
          /\ UNCHANGED <<sd, nEnvios, ultimoEnvio, sometidos, acusados>>
  /\ UNCHANGED <<sdDisponible, contadorMediciones, millis, parametros, estadoSIM, localesLoop,
                 historial, noGuardados, cortada, ajenasH>>

\* GetBateria(), GetCobertura() and the first measurement of loop().
leerEstadoH ==
  /\ pc = "H_leerEstado"
  /\ \E cbc \in RespuestasCBC, csq \in RespuestasCSQ, m \in Muestras :
       /\ porcentaje' = cbc.porcentaje
       /\ voltios' = cbc.voltios
       /\ contador_bateria_baja' = GetBateria(contador_bateria_baja, cbc.voltios)
       /\ cobertura' = csq
       /\ buffers' = [temp |-> m.temp, cond |-> m.cond, bat |-> Dec(cbc.porcentaje),
                      volt |-> Dec(cbc.voltios), cob |-> Dec(csq)]
  /\ iAcumula' = 0
  /\ pc' = "H_acumular"
  /\ UNCHANGED <<sd, sdDisponible, contadorMediciones, millis, parametros, guardado, intentos,
                 enviados, campos, falloDrain, archivoLectura, fantasmas, ajenasH>>

\* One round of "for (int i=0; i<=acumula-2; i++)", or its exit.
acumularH ==
  /\ pc = "H_acumular"
  /\ IF iAcumula <= acumula - 2
     THEN /\ \E cbc \in RespuestasCBC, csq \in RespuestasCSQ, m \in Muestras :
               /\ porcentaje' = cbc.porcentaje
               /\ voltios' = cbc.voltios
               /\ contador_bateria_baja' = GetBateria(contador_bateria_baja, cbc.voltios)
               /\ cobertura' = csq
               /\ buffers' = [temp |-> buffers.temp \o "|" \o m.temp,
                              cond |-> buffers.cond \o "|" \o m.cond,
                              bat |-> buffers.bat \o "|" \o Dec(cbc.porcentaje),
                              volt |-> buffers.volt \o "|" \o Dec(cbc.voltios),
                              cob |-> buffers.cob \o "|" \o Dec(csq)]
          /\ iAcumula' = iAcumula + 1
          /\ pc' = "H_acumular"
     ELSE /\ pc' = "guardarDatosSD"
          /\ UNCHANGED <<estadoSIM, buffers, iAcumula>>
  /\ UNCHANGED <<sd, sdDisponible, contadorMediciones, millis, parametros, guardado, intentos,
                 enviados, campos, falloDrain, archivoLectura, fantasmas, ajenasH>>

\* contadorMediciones++, guardarDatosSD(...) and the log line of a failed save.
guardarDatosSD ==
  /\ pc = "guardarDatosSD"
  /\ contadorMediciones' = contadorMediciones + 1
  /\ guardado' = sdDisponible
  /\ IF sdDisponible
     THEN /\ sd' = Anexar(sd, ArchivoDatos,
                          <<Linea(RegistroNuevo(contadorMediciones + 1) \o <<"PENDIENTE">>)>>)
          /\ historial' = Append(historial, RegistroNuevo(contadorMediciones + 1))
          /\ UNCHANGED noGuardados
     ELSE /\ noGuardados' = noGuardados \cup {RegistroNuevo(contadorMediciones + 1)}
          /\ UNCHANGED <<sd, historial>>
  /\ pc' = "H_enviahttp"
  /\ UNCHANGED <<sdDisponible, millis, parametros, estadoSIM, buffers, iAcumula, intentos,
                 enviados, campos, falloDrain, archivoLectura, sometidos, acusados, nEnvios,
                 ultimoEnvio, cortada, ajenasH>>

\* enviahttp of the new measurement, marcarComoEnviado or the log line of
\* the failure, and the parse of the reply.
loopH_enviahttp ==
  /\ pc = "H_enviahttp"
  /\ \E respuesta \in Red :
       LET p == parametrosH(respuesta, periodo, acumula) IN
       /\ nEnvios' = nEnvios + 1
       /\ ultimoEnvio' = [linea |-> RegistroNuevo(contadorMediciones), respuesta |-> respuesta.texto, ok |-> respuesta.marca,
                          origen |-> "loop"]
       /\ sometidos' = sometidos \cup {RegistroNuevo(contadorMediciones)}
       /\ acusados' = IF respuesta.marca THEN acusados \cup {RegistroNuevo(contadorMediciones)}
                      ELSE acusados
       /\ sd' = IF respuesta.marca
                THEN (IF guardado THEN marcarComoEnviadoH(sd, sdDisponible, contadorMediciones)
                      ELSE sd)
                ELSE IF sdDisponible
                     THEN Anexar(sd, ARCHIVO_LOG,
                                 <<Linea(<<"FALLO envio ID: " \o Dec(contadorMediciones)
                                           \o " - Respuesta: ">>)>>)
                     ELSE sd
       /\ periodo' = p.periodo
       /\ acumula' = p.acumula
  /\ pc' = "H_loop"
  /\ buffers' = BuffersVacios
  /\ iAcumula' = 0
  /\ guardado' = FALSE
  /\ UNCHANGED <<sdDisponible, contadorMediciones, millis, estadoSIM, intentos, enviados,
                 campos, falloDrain, archivoLectura, historial, noGuardados, cortada, ajenasH>>

NextH ==
  \/ setupH
  \/ loopH
  \/ reintentarEnviosPendientes
  \/ re_while
  \/ leerEstadoH
  \/ acumularH
  \/ guardarDatosSD
  \/ loopH_enviahttp

SpecH == InitH /\ [][NextH]_vars

\* The single-file program with the replies of TextosParametros.
InitHParametros ==
  /\ ArranqueH
  /\ entorno = EntornoParametros

SpecHParametros == InitHParametros /\ [][NextH]_vars

(***************************************************************************)
(* Modular_sensores_SD.ino, first program ("SISTEMA MODULAR v3.0", lines   *)
(* 1-935): the same two files, without header lines and without record     *)
(* identifiers; a record starts with its timestamp.  This program is       *)
(* modelled without power loss; SD.open may fail in guardarEnSD and in     *)
(* moverPrimeraLineaAEnviados while the budget of faults lasts, and the    *)
(* log can be written whenever the card is mounted.                        *)
(***************************************************************************)
EntornoA ==
  [ciclos |-> MaxCiclos, fallos |-> MaxFallos, cbc |-> RespuestasCBC, red |-> "libre"]

\* dtostrf() of the three sensor readings as generarLineaCSV prints them.
MuestrasA == { [temp |-> "20.50", cond |-> "1413.0", od |-> " 8.25"] }

\* escribirLog of the first program: millis(), ": " and the message.
escribirLogA(s, montada, mensaje) ==
  IF montada
  THEN Anexar(s, ARCHIVO_LOG, <<Linea(<<Dec(millis) \o ": " \o mensaje>>)>>)
  ELSE s

\* leerPrimeraLinea: true when the file opens and its first line is not empty.
leerPrimeraLinea(s, montada, nombreArchivo) ==
  /\ montada
  /\ nombreArchivo \in DOMAIN s
  /\ s[nombreArchivo] # <<>>
  /\ s[nombreArchivo][1].t # <<>>

\* moverPrimeraLineaAEnviados: the volume after the call.  aEnviados is the
\* outcome of the open of enviado.csv, aCopia that of the opens of
\* pendient.csv and temp.tmp.
moverPrimeraLineaAEnviados(s, montada, aEnviados, aCopia) ==
  IF ~leerPrimeraLinea(s, montada, ARCHIVO_PENDIENTES) \/ ~aEnviados THEN s
  ELSE LET anexado == Anexar(s, ARCHIVO_ENVIADOS, <<Linea(s[ARCHIVO_PENDIENTES][1].t)>>) IN
       IF ~aCopia THEN anexado
       ELSE [anexado EXCEPT ![ARCHIVO_PENDIENTES] = Tail(@)]

InitA ==
  /\ pc = "A_setup"
  /\ Volatil
  /\ sd = <<>>
  /\ millis = 0
  /\ cortes = 0
  /\ fallosSD = 0
  /\ historial = <<>>
  /\ noGuardados = {}
  /\ sometidos = {}
  /\ acusados = {}
  /\ nEnvios = 0
  /\ ultimoEnvio = [linea |-> <<>>, respuesta |-> "", ok |-> FALSE, origen |-> "ninguno"]
  /\ cortada = [fase |-> "ninguna", clase |-> "", linea |-> <<>>, antes |-> <<>>, etapa |-> ""]
  /\ archivoLectura = ArchivoCerrado
  /\ ciclo = CicloNuevo
  /\ entorno = EntornoA

\* Variables that the first program does not have.
ajenasA == <<pila, contadorMediciones, periodo, acumula, bufferLinea, pendientes, enviados,
             iAcumula, cortes, promocion, cortada, archivoLectura, entorno>>

\* setup(): SD.begin and the first line of the log.
setupA ==
  /\ pc = "A_setup"
  /\ \E begin \in BOOLEAN :
       /\ sdDisponible' = begin
       /\ sd' = escribirLogA(sd, begin, "Sistema iniciado")
  /\ pc' = "A_loop"
  /\ UNCHANGED <<contador_bateria_baja, voltios, porcentaje, cobertura, intentos, campos,
                 buffers, guardado, millis, fallosSD, falloDrain, fantasmas, ciclo, ajenasA>>

\* loop(): battery gate.
loopA ==
  /\ pc = "A_loop"
  /\ millis < entorno.ciclos
  /\ millis' = millis + 1
  /\ IF contador_bateria_baja > UMBRAL_BATERIA_BAJA
     THEN /\ sd' = escribirLogA(sd, sdDisponible, "SHUTDOWN: Bateria critica")
          /\ pc' = "A_apagado"
     ELSE /\ sd' = sd
          /\ pc' = "A_reintentarPendientes"
  /\ ciclo' = [CicloNuevo EXCEPT !.previo = ciclo.fallido]
  /\ UNCHANGED <<sdDisponible, contador_bateria_baja, voltios, porcentaje, cobertura, intentos,
                 campos, buffers, guardado, fallosSD, falloDrain, fantasmas, ajenasA>>

\* reintentarPendientes(): the count of the pending lines.
reintentarPendientesA ==
  /\ pc = "A_reintentarPendientes"
  /\ pc' = IF contarLineas(sd, sdDisponible, TRUE, ARCHIVO_PENDIENTES) = 0
           THEN "A_leerTodosSensores" ELSE "A_while"
  /\ intentos' = 0
  /\ falloDrain' = FALSE
  /\ ciclo' = [ciclo EXCEPT !.pendAlDrenar = Contenido(sd, ARCHIVO_PENDIENTES),
                            !.enviAlDrenar = Contenido(sd, ARCHIVO_ENVIADOS)]
  /\ UNCHANGED <<sd, sdDisponible, contador_bateria_baja, voltios, porcentaje, cobertura,
                 campos, buffers, guardado, millis, fallosSD, fantasmas, ajenasA>>

\* One round of "while (reintentos < MAX_REINTENTOS && leerPrimeraLinea(...))":
\* the parse, enviarHTTP, and moverPrimeraLineaAEnviados or the break.
rpA_while ==
  /\ pc = "A_while"
  /\ IF intentos < MAX_REINTENTOS /\ leerPrimeraLinea(sd, sdDisponible, ARCHIVO_PENDIENTES)
     THEN \E respuesta \in Red, aEnviados \in Aperturas, aCopia \in Aperturas :
            LET linea == sd[ARCHIVO_PENDIENTES][1].t IN
            /\ ~aEnviados => respuesta.marca /\ aCopia
            /\ ~aCopia => respuesta.marca
            /\ fallosSD' = fallosSD + Falla(aEnviados) + Falla(aCopia)
            /\ campos' = [t |-> Tail(linea), cr |-> 0, linea |-> linea]
            /\ nEnvios' = nEnvios + 1
            /\ ultimoEnvio' = [linea |-> linea, respuesta |-> respuesta.texto, ok |-> respuesta.marca, origen |-> "drain"]
            /\ sometidos' = sometidos \cup {linea}
            /\ acusados' = IF respuesta.marca THEN acusados \cup {linea} ELSE acusados
            /\ ciclo' = [ciclo EXCEPT !.enviosDrain = @ + 1,
                                      !.primero = IF ciclo.enviosDrain = 0 THEN linea ELSE @,
                                      !.fallido = IF respuesta.marca THEN @ ELSE linea]
            /\ IF respuesta.marca
               THEN /\ sd' = moverPrimeraLineaAEnviados(sd, sdDisponible, aEnviados, aCopia)
                    /\ intentos' = intentos + 1
                    /\ pc' = "A_while"
                    /\ UNCHANGED falloDrain
               ELSE /\ sd' = escribirLogA(sd, sdDisponible, "Error envio HTTP")
                    /\ falloDrain' = TRUE
                    /\ pc' = "A_leerTodosSensores"
                    /\ UNCHANGED intentos
     ELSE /\ pc' = "A_leerTodosSensores"
          /\ UNCHANGED <<sd, intentos, campos, falloDrain, fallosSD, nEnvios, ultimoEnvio,
                         sometidos, acusados, ciclo>>
  /\ UNCHANGED <<sdDisponible, contador_bateria_baja, voltios, porcentaje, cobertura, buffers,
                 guardado, millis, historial, noGuardados, ajenasA>>

\* leerTodosSensores(): battery, coverage, the sensors and the timestamp.
leerTodosSensores ==
  /\ pc = "A_leerTodosSensores"
  /\ \E cbc \in entorno.cbc, csq \in RespuestasCSQ, m \in MuestrasA :
       /\ porcentaje' = cbc.porcentaje
       /\ voltios' = cbc.voltios
       /\ contador_bateria_baja' = GetBateria(contador_bateria_baja, cbc.voltios)
       /\ cobertura' = csq
       /\ buffers' = [timestamp |-> Dec(millis), temp |-> m.temp, cond |-> m.cond,
                      od |-> m.od, bat |-> Dec(cbc.porcentaje), volt |-> Dec(cbc.voltios),
                      cob |-> Dec(csq)]
  /\ pc' = "A_guardarEnSD"
  /\ falloDrain' = FALSE
  /\ UNCHANGED <<sd, sdDisponible, intentos, campos, guardado, millis, fallosSD, fantasmas,
                 ciclo, ajenasA>>

\* generarLineaCSV of the measurement of this cycle.
RegistroA ==
  <<buffers.timestamp, buffers.temp, buffers.cond, buffers.od, buffers.bat, buffers.volt,
    buffers.cob>>

\* guardarEnSD(datos) and the log line of a failed save.
guardarEnSD ==
  /\ pc = "A_guardarEnSD"
  /\ \E abre \in Aperturas :
       /\ ~abre => sdDisponible
       /\ fallosSD' = fallosSD + Falla(abre)
       /\ guardado' = (sdDisponible /\ abre)
       /\ IF sdDisponible /\ abre
          THEN /\ sd' = Anexar(sd, ARCHIVO_PENDIENTES, <<Linea(RegistroA)>>)
               /\ historial' = Append(historial, RegistroA)
               /\ UNCHANGED noGuardados
          ELSE /\ sd' = escribirLogA(sd, sdDisponible, "ERROR: Fallo guardar SD")
               /\ noGuardados' = noGuardados \cup {RegistroA}
               /\ UNCHANGED historial
  /\ pc' = "A_enviarHTTP"
  /\ UNCHANGED <<sdDisponible, contador_bateria_baja, voltios, porcentaje, cobertura, intentos,
                 campos, buffers, millis, falloDrain, sometidos, acusados, nEnvios,
                 ultimoEnvio, cortada, ciclo, ajenasA>>

\* enviarHTTP(datos), then moverPrimeraLineaAEnviados() when it succeeded.
loopA_enviarHTTP ==
  /\ pc = "A_enviarHTTP"
  /\ \E respuesta \in Red, aEnviados \in Aperturas, aCopia \in Aperturas :
       /\ ~aEnviados => respuesta.marca /\ aCopia
       /\ ~aCopia => respuesta.marca
       /\ fallosSD' = fallosSD + Falla(aEnviados) + Falla(aCopia)
       /\ nEnvios' = nEnvios + 1
       /\ ultimoEnvio' = [linea |-> RegistroA, respuesta |-> respuesta.texto, ok |-> respuesta.marca, origen |-> "loop"]
       /\ sometidos' = sometidos \cup {RegistroA}
       /\ acusados' = IF respuesta.marca THEN acusados \cup {RegistroA} ELSE acusados
       /\ sd' = IF respuesta.marca
                THEN moverPrimeraLineaAEnviados(sd, sdDisponible, aEnviados, aCopia)
                ELSE escribirLogA(sd, sdDisponible, "Error envio HTTP")
  /\ ciclo' = [ciclo EXCEPT !.enviosLoop = @ + 1]
  /\ pc' = "A_loop"
  /\ UNCHANGED <<sdDisponible, contador_bateria_baja, voltios, porcentaje, cobertura, intentos,
                 campos, buffers, guardado, millis, falloDrain, historial, noGuardados,
                 cortada, ajenasA>>

NextA ==
  \/ setupA
  \/ loopA
  \/ reintentarPendientesA
  \/ rpA_while
  \/ leerTodosSensores
  \/ guardarEnSD
  \/ loopA_enviarHTTP

SpecA == InitA /\ [][NextA]_vars

(***************************************************************************)
(* Vocabulary of the properties.  A record is identified by its fields;    *)
(* the line terminator does not count.                                     *)
(***************************************************************************)
Rango(seq) == {seq[i] : i \in DOMAIN seq}
Registros(f) == [i \in DOMAIN Contenido(sd, f) |-> Contenido(sd, f)[i].t]
Campos(lineas) == [i \in DOMAIN lineas |-> lineas[i].t]
Veces(seq, r) == Cardinality({i \in DOMAIN seq : seq[i] = r})
Pos(seq, r) == CHOOSE i \in DOMAIN seq : seq[i] = r
EnPendientes(r) == r \in Rango(Registros(ARCHIVO_PENDIENTES))
EnEnviados(r) == r \in Rango(Registros(ARCHIVO_ENVIADOS))
Medidos == Rango(historial)
SinFallos == cortes = 0 /\ fallosSD = 0
FinDeCiclo == pc = "loop"
\* The records of seq that were appended by guardarMedicion follow the
\* order in which they were appended.
EnOrdenDeAnexado(seq) ==
  \A i \in DOMAIN seq, j \in DOMAIN seq :
    (i < j /\ seq[i] \in Medidos /\ seq[j] \in Medidos)
      => Pos(historial, seq[i]) <= Pos(historial, seq[j])

(***************************************************************************)
(* C1: without power loss and without storage errors, at the end of every  *)
(* operating cycle each measurement that was appended to pendient.csv is   *)
(* either still in pendient.csv or a submit that carried it has returned   *)
(* success.                                                                *)
(***************************************************************************)
C1_NoSilentLoss ==
  (SinFallos /\ FinDeCiclo) => \A r \in Medidos : EnPendientes(r) \/ r \in acusados

(***************************************************************************)
(* C2: without power loss and without storage errors, no submit carries a  *)
(* measurement for which an earlier submit has already returned success.   *)
(***************************************************************************)
C2_NoDuplicateRedelivery ==
  [][(SinFallos /\ nEnvios' # nEnvios /\ ultimoEnvio'.linea \in Medidos)
       => ultimoEnvio'.linea \notin acusados]_vars

(***************************************************************************)
(* C3: every record that has been submitted had its append to              *)
(* pendient.csv completed (or attempted and failed) before that submit;    *)
(* the only other line ever submitted is the header line of the file.      *)
(***************************************************************************)
C3_WriteAhead == sometidos \subseteq (Medidos \cup noGuardados \cup {Encabezado})

\* The measurement of this cycle was appended and then submitted by loop().
C3_Witness ==
  /\ pc = "loop_fin"
  /\ ultimoEnvio.origen = "loop"
  /\ ultimoEnvio.linea \in Medidos
  /\ ultimoEnvio.linea = RegistroNuevo(contadorMediciones)

(***************************************************************************)
(* C4: after a power loss during a promotion (anywhere from the append to  *)
(* enviado.csv to the end of the rewrite of pendient.csv) and the restart, *)
(* the record being promoted is in exactly one of pendient.csv and         *)
(* enviado.csv.                                                            *)
(***************************************************************************)
C4_PromotionCrashExactlyOne ==
  (/\ FinDeCiclo
   /\ cortada.fase = "reciente"
   /\ cortada.clase = "promocion"
   /\ cortada.linea \in Medidos
   /\ fallosSD = 0)
    => (EnPendientes(cortada.linea) # EnEnviados(cortada.linea))

(***************************************************************************)
(* C5: after a power loss between the start of the copy to temp.tmp and    *)
(* the end of the rewrite of pendient.csv, the restart and the next        *)
(* completed promotion, every other measurement that was in pendient.csv   *)
(* before the power loss is in pendient.csv exactly once (or not at all if *)
(* a submit of it has been acknowledged since), in the original order.     *)
(***************************************************************************)
C5_SwapCrashKeepsBacklog ==
  (/\ cortada.fase = "reejecutada"
   /\ cortada.clase = "promocion"
   /\ cortada.etapa \in {"el_remove", "el_copiar", "el_removeTemp"}
   /\ fallosSD = 0)
    => /\ \A r \in (Rango(Campos(cortada.antes)) \cap Medidos) \ {cortada.linea} :
            \/ Veces(Registros(ARCHIVO_PENDIENTES), r) = 1
            \/ Veces(Registros(ARCHIVO_PENDIENTES), r) = 0 /\ r \in acusados
       /\ EnOrdenDeAnexado(Registros(ARCHIVO_PENDIENTES))

(***************************************************************************)
(* C6: enviado.csv holds every measurement at most once.                   *)
(***************************************************************************)
C6_SentAtMostOnce ==
  \A r \in Medidos : Veces(Registros(ARCHIVO_ENVIADOS), r) <= 1

(***************************************************************************)
(* C7: without power loss and without storage errors, at the end of every  *)
(* operating cycle no measurement is both in pendient.csv and in           *)
(* enviado.csv.                                                            *)
(***************************************************************************)
C7_NoRecordInBothFiles ==
  (SinFallos /\ FinDeCiclo) => \A r \in Medidos : ~(EnPendientes(r) /\ EnEnviados(r))

(***************************************************************************)
(* C8: without power loss and without storage errors, the measurements of  *)
(* enviado.csv are in the order in which they were appended to             *)
(* pendient.csv, and so are the measurements that remain in pendient.csv.  *)
(***************************************************************************)
C8_FifoOrder ==
  SinFallos => /\ EnOrdenDeAnexado(Registros(ARCHIVO_ENVIADOS))
               /\ EnOrdenDeAnexado(Registros(ARCHIVO_PENDIENTES))

(***************************************************************************)
(* C9: loop() promotes after the send of the new measurement only when     *)
(* that measurement is the only one in pendient.csv; when an older         *)
(* measurement is still there, no promotion is started.                    *)
(***************************************************************************)
C9_ImmediatePromotionOnlyWhenAlone ==
  (SinFallos /\ pc = "marcarComoEnviado" /\ pila # <<>> /\ Head(pila) = "loop_fin")
    => \A r \in Medidos : EnPendientes(r) => r = RegistroNuevo(contadorMediciones)

(***************************************************************************)
(* C10: within one run of reintentarPendientes, once a submit has returned *)
(* failure no further submit is made and no file changes.                  *)
(***************************************************************************)
C10_DrainStopsAtFirstFailure ==
  [][(falloDrain /\ falloDrain') => (nEnvios' = nEnvios /\ sd' = sd)]_vars

(***************************************************************************)
(* C18: no two measurements appended to pendient.csv over the lifetime of  *)
(* the device, restarts included, carry the same identifier.               *)
(***************************************************************************)
C18_NoIdReuse ==
  \A i \in DOMAIN historial, j \in DOMAIN historial :
    i # j => historial[i][1] # historial[j][1]

(***************************************************************************)
(* C14: enviado.csv only grows, and every line that is appended to it      *)
(* after setup() is a line for which a submit has returned success.        *)
(***************************************************************************)
C14_SentOnlyAcknowledged ==
  [][LET antes == Contenido(sd, ARCHIVO_ENVIADOS)
         despues == Contenido(sd', ARCHIVO_ENVIADOS)
     IN /\ Len(despues) >= Len(antes)
        /\ SubSeq(despues, 1, Len(antes)) = antes
        /\ pc # "setup" =>
             \A i \in (Len(antes) + 1)..Len(despues) : despues[i].t \in acusados']_vars

(***************************************************************************)
(* C15: without power loss and without storage errors, a measurement whose *)
(* submit failed in the drain of one cycle (and for which no submit has    *)
(* ever returned success) is the first line that the drain of the next     *)
(* cycle submits.                                                          *)
(***************************************************************************)
C15_FailedRecordRetriedFirst ==
  (/\ SinFallos
   /\ pc = "leerEstado"
   /\ ciclo.previo \in Medidos
   /\ ciclo.previo \notin acusados)
    => ciclo.primero = ciclo.previo

(***************************************************************************)
(* C20: while sdDisponible is false after setup(), no step creates or      *)
(* changes a file, the drain submits nothing, and the only submit of a     *)
(* cycle is the one submit of its new measurement by loop().               *)
(***************************************************************************)
C20_NoStorageNoFileAccess ==
  [][(pc # "setup" /\ ~sdDisponible)
       => /\ sd' = sd
          /\ ciclo'.enviosDrain = 0
          /\ ciclo'.enviosLoop <= 1
          /\ (nEnvios' # nEnvios) => (ultimoEnvio'.origen = "loop")
          /\ (pc = "loop_fin" /\ pc' = "loop") => (ciclo.enviosLoop = 1)]_vars

\* The second cycle is about to end without storage; each cycle has submitted
\* its measurement, and the volume was never touched.
C20_Witness ==
  /\ pc = "loop_fin"
  /\ ~sdDisponible
  /\ cortes = 0
  /\ millis = 2
  /\ nEnvios = 2
  /\ ciclo.enviosLoop = 1
  /\ sd = <<>>

EsMedido(r) == r \in Medidos
\* The measurements among the lines of a file, in the order of the file.
Datos(lineas) == SelectSeq(Campos(lineas), EsMedido)

(***************************************************************************)
(* C16: when the drain starts with k measurements in pendient.csv,         *)
(* 1 <= k <= MAX_REINTENTOS, and none of its submits fails, then at the    *)
(* end of the drain no measurement is left in pendient.csv and the         *)
(* measurements that enviado.csv has gained are those k, in order.         *)
(***************************************************************************)
C16_DrainEmptiesShortBacklog ==
  (/\ pc = "rp_fin"
   /\ ~falloDrain
   /\ Len(Datos(ciclo.pendAlDrenar)) \in 1..MAX_REINTENTOS)
    => /\ Datos(Contenido(sd, ARCHIVO_PENDIENTES)) = <<>>
       /\ Datos(SubSeq(Contenido(sd, ARCHIVO_ENVIADOS), Len(ciclo.enviAlDrenar) + 1,
                       Len(Contenido(sd, ARCHIVO_ENVIADOS))))
            = Datos(ciclo.pendAlDrenar)

\* The i-th measurement appended to pendient.csv has been moved to enviado.csv.
Entregado(i) ==
  /\ Len(historial) >= i
  /\ EnEnviados(historial[i])
  /\ ~EnPendientes(historial[i])

(***************************************************************************)
(* C13: on a network that recovers, and without storage errors, each of    *)
(* the first two measurements appended to pendient.csv is eventually in    *)
(* enviado.csv and no longer in pendient.csv.  (The run goes on for at     *)
(* least two cycles after the last submit that may fail.)                  *)
(***************************************************************************)
C13_EventualDelivery ==
  \A i \in 1..2 : [](Len(historial) >= i => <>Entregado(i))

\* f holds in sd' what it holds in sd.
Intacto(f) == (f \in DOMAIN sd') = (f \in DOMAIN sd) /\ Contenido(sd', f) = Contenido(sd, f)

(***************************************************************************)
(* C12: a cycle that starts with the low-battery counter above the         *)
(* threshold goes straight to the shutdown: it submits nothing, appends    *)
(* no measurement, leaves pendient.csv and enviado.csv as they are and     *)
(* writes at most the shutdown line to the log; after the shutdown no      *)
(* step is ever taken.                                                     *)
(***************************************************************************)
C12_BatteryGate ==
  [][/\ (pc = "loop" /\ contador_bateria_baja > UMBRAL_BATERIA_BAJA)
          => /\ pc' = "apagado"
             /\ Intacto(ARCHIVO_PENDIENTES)
             /\ Intacto(ARCHIVO_ENVIADOS)
             /\ Intacto(ArchivoTemp)
             /\ nEnvios' = nEnvios
             /\ historial' = historial
             /\ contadorMediciones' = contadorMediciones
             /\ \/ Intacto(ARCHIVO_LOG)
                \/ Contenido(sd', ARCHIVO_LOG)
                     = Append(Contenido(sd, ARCHIVO_LOG),
                              Linea(<<Dec(millis) \o " ms: SHUTDOWN: Bateria critica">>))
     /\ pc = "apagado" => FALSE]_vars

\* The node has shut down with measurements still pending, and the bound on
\* the cycles would have allowed another cycle.
C12_Witness ==
  /\ pc = "apagado"
  /\ millis < entorno.ciclos
  /\ contador_bateria_baja > UMBRAL_BATERIA_BAJA
  /\ Len(Contenido(sd, ARCHIVO_PENDIENTES)) > 1
  /\ Len(Contenido(sd, ARCHIVO_LOG)) > 0
  /\ Contenido(sd, ARCHIVO_LOG)[Len(Contenido(sd, ARCHIVO_LOG))].t
       = <<Dec(millis - 1) \o " ms: SHUTDOWN: Bateria critica">>

(***************************************************************************)
(* C11: one run of reintentarPendientes makes at most MAX_REINTENTOS       *)
(* attempts, a discarded line counting as one, and so at most              *)
(* MAX_REINTENTOS submits, however many lines pendient.csv holds.          *)
(***************************************************************************)
C11_DrainBounded ==
  [][/\ intentos' <= MAX_REINTENTOS
     /\ ciclo'.enviosDrain + Len(ciclo'.descartes) <= MAX_REINTENTOS
     /\ pc = "rp_descartada" => intentos' = intentos + 1]_vars

\* A drain has used its three attempts, one of them on a discarded line, no
\* submit has failed, and lines are left in pendient.csv.
C11_Witness ==
  /\ pc = "rp_fin"
  /\ ~falloDrain
  /\ intentos = MAX_REINTENTOS
  /\ ciclo.enviosDrain + Len(ciclo.descartes) = MAX_REINTENTOS
  /\ Len(ciclo.descartes) >= 1
  /\ Len(Contenido(sd, ARCHIVO_PENDIENTES)) >= 1

(***************************************************************************)
(* C17: when the drain starts with a line of too few fields at the head of *)
(* pendient.csv, followed by a measurement, and no submit fails, the line  *)
(* has been removed at the end of the drain without having been submitted  *)
(* or added to enviado.csv, and the measurement behind it was submitted.   *)
(***************************************************************************)
C17_MalformedLineDiscarded ==
  (/\ pc = "rp_fin"
   /\ ~falloDrain
   /\ Len(ciclo.pendAlDrenar) >= 2
   /\ Len(ciclo.pendAlDrenar[1].t) < 7
   /\ ciclo.pendAlDrenar[2].t \in Medidos)
    => /\ ~EnPendientes(ciclo.pendAlDrenar[1].t)
       /\ ~EnEnviados(ciclo.pendAlDrenar[1].t)
       /\ ciclo.pendAlDrenar[1].t \notin sometidos
       /\ ciclo.descartes # <<>>
       /\ ciclo.primero = ciclo.pendAlDrenar[2].t

(***************************************************************************)
(* C19: when the append of the new measurement to pendient.csv has failed, *)
(* the submit of that measurement by loop() leaves pendient.csv and        *)
(* enviado.csv as they are, whatever its result, and the drain never       *)
(* submits a measurement whose append failed.                              *)
(***************************************************************************)
C19_FailedAppendNoPromotion ==
  [][/\ (pc \in {"loop_enviarHTTP", "A_enviarHTTP"} /\ ~guardado)
          => (Intacto(ARCHIVO_PENDIENTES) /\ Intacto(ARCHIVO_ENVIADOS))
     /\ (nEnvios' # nEnvios /\ ultimoEnvio'.origen = "drain")
          => ultimoEnvio'.linea \notin noGuardados]_vars

(***************************************************************************)
(* C21: every operating cycle that has passed the battery gate runs to its *)
(* end, whatever SD.open calls fail, whatever submits fail and whatever    *)
(* damaged lines pendient.csv holds: the drain that starts in cycle m      *)
(* hands over to the status readings of cycle m, and loop() returns in     *)
(* cycle m.                                                                *)
(***************************************************************************)
C21_CycleTerminates ==
  \A m \in 1..MaxCiclosTarjeta :
    /\ (pc = "reintentarPendientes" /\ millis = m) ~> (pc = "leerEstado" /\ millis = m)
    /\ (pc = "leerEstado" /\ millis = m) ~> (pc = "loop" /\ millis = m)

\* A cycle at its end in which the drain discarded a damaged line, a submit
\* of the drain failed, the append of the new measurement failed and its
\* submit failed.
C21_Witness ==
  /\ pc = "loop_fin"
  /\ ciclo.descartes # <<>>
  /\ ciclo.fallido # <<>>
  /\ fallosSD > 0
  /\ ~guardado
  /\ ~ultimoEnvio.ok
  /\ ultimoEnvio.origen = "loop"

(***************************************************************************)
(* C22: the step that appends the new measurement (guardarMedicion, and    *)
(* guardarEnSD in the first program) either succeeds, and then             *)
(* pendient.csv is what it was followed by exactly one new line, the       *)
(* measurement, or fails, and then pendient.csv is what it was.            *)
(***************************************************************************)
C22_AppendKeepsEarlierLines ==
  [][(pc = "guardarMedicion" \/ pc = "A_guardarEnSD") =>
       LET antes == Contenido(sd, ARCHIVO_PENDIENTES)
           despues == Contenido(sd', ARCHIVO_PENDIENTES)
       IN IF guardado'
          THEN /\ Len(despues) = Len(antes) + 1
               /\ SubSeq(despues, 1, Len(antes)) = antes
               /\ despues[Len(despues)].t = historial'[Len(historial')]
               /\ Len(historial') = Len(historial) + 1
          ELSE (Intacto(ARCHIVO_PENDIENTES) /\ historial' = historial)
    ]_vars

\* A successful append behind a backlog of at least two lines.
C22_Witness ==
  /\ pc = "loop_enviarHTTP"
  /\ guardado
  /\ Len(Contenido(sd, ARCHIVO_PENDIENTES)) >= 3
  /\ Contenido(sd, ARCHIVO_PENDIENTES)[Len(Contenido(sd, ARCHIVO_PENDIENTES))].t
       = RegistroNuevo(contadorMediciones)

(***************************************************************************)
(* C23: a restart keeps what the card holds.  The step that restarts the   *)
(* program and the step of setup() leave an existing pendient.csv and an   *)
(* existing enviado.csv as they are; a measurement that was appended and   *)
(* not yet submitted when the power went is in pendient.csv when the       *)
(* restart happens and when setup() has run.                               *)
(***************************************************************************)
C23_RestartKeepsPending ==
  [][/\ (pc = "setup" \/ pc' = "setup") =>
          /\ \A f \in {ARCHIVO_PENDIENTES, ARCHIVO_ENVIADOS} : f \in DOMAIN sd => Intacto(f)
          /\ \A r \in Medidos :
               (r \notin sometidos /\ EnPendientes(r))
                 => r \in Rango(Campos(Contenido(sd', ARCHIVO_PENDIENTES)))
     /\ (pc = "loop_enviarHTTP" /\ guardado /\ pc' = "setup") =>
          /\ historial # <<>>
          /\ historial[Len(historial)] = RegistroNuevo(contadorMediciones)
          /\ historial[Len(historial)] \in Rango(Campos(Contenido(sd', ARCHIVO_PENDIENTES)))
    ]_vars

\* setup() has run after a power loss that came between the append of a
\* measurement and its submit; the measurement is in pendient.csv.
C23_Witness ==
  /\ pc = "loop"
  /\ cortes = 1
  /\ historial # <<>>
  /\ historial[Len(historial)] \notin sometidos
  /\ EnPendientes(historial[Len(historial)])
  /\ sdDisponible

(***************************************************************************)
(* C24: while a promotion is in progress, and in the state a power loss    *)
(* leaves behind when it interrupts one, the record that is being promoted *)
(* (the record whose submit has just returned success) is in pendient.csv  *)
(* or in enviado.csv.                                                      *)
(***************************************************************************)
EnPromocion ==
  \/ promocion.fase = "promocion"
  \/ pc = "setup" /\ cortada.fase = "reciente" /\ cortada.clase = "promocion"

C24_PromotedRecordNeverAbsent ==
  EnPromocion => (EnPendientes(ultimoEnvio.linea) \/ EnEnviados(ultimoEnvio.linea))

(***************************************************************************)
(* C25: whatever the server has answered so far, the sampling period and   *)
(* the accumulation count are positive.                                    *)
(***************************************************************************)
C25_ParametersStayPositive == periodo > 0 /\ acumula > 0

(***************************************************************************)
(* C26: a submit that returns failure leaves the sampling period and the   *)
(* accumulation count as they were.                                        *)
(***************************************************************************)
C26_FailedSubmitKeepsParameters ==
  [][(nEnvios' # nEnvios /\ ~ultimoEnvio'.ok) => (periodo' = periodo /\ acumula' = acumula)]_vars

(***************************************************************************)
(* C27: the last submit returned success exactly when the text of the      *)
(* reply holds "200" or holds "OK"; in particular the empty reply and a    *)
(* reply without either marker are failures.                               *)
(***************************************************************************)
C27_SuccessIffMarker ==
  nEnvios > 0 =>
    (ultimoEnvio.ok <=>
       (Contiene(ultimoEnvio.respuesta, "200") \/ Contiene(ultimoEnvio.respuesta, "OK")))

\* A submit that was answered with "200" alone has returned success, after a
\* submit of the drain.
C27_Witness ==
  /\ nEnvios > 1
  /\ ultimoEnvio.respuesta = "200"
  /\ ultimoEnvio.ok
  /\ ultimoEnvio.origen = "loop"
  /\ ultimoEnvio.linea \in acusados

(***************************************************************************)
(* C28: the step that writes to enviado.csv in the promotion of a          *)
(* measurement appends exactly the first line of pendient.csv, the line    *)
(* that the promotion then removes, carriage returns included; and         *)
(* whatever step is taken, the lines that enviado.csv holds stay as they   *)
(* are.                                                                    *)
(***************************************************************************)
C28_RecordsNeverAltered ==
  [][LET pend == Contenido(sd, ARCHIVO_PENDIENTES)
         antes == Contenido(sd, ARCHIVO_ENVIADOS)
         despues == Contenido(sd', ARCHIVO_ENVIADOS)
     IN /\ (pc = "marcarComoEnviado" /\ pc' = "eliminarPrimeraLinea"
               /\ ultimoEnvio.linea \in Medidos) =>
             (pend # <<>> /\ despues = Append(antes, pend[1]))
        /\ Len(despues) >= Len(antes)
        /\ SubSeq(despues, 1, Len(antes)) = antes
    ]_vars

(***************************************************************************)
(* C29: when the drain has parsed a line that guardarMedicion wrote and    *)
(* whose fields are non-empty and free of ';', the five field strings it   *)
(* holds (what strtok delivers from the characters that leerLineaN put in  *)
(* the buffer) are equal to the five field strings that were written.      *)
(***************************************************************************)
BUFFER_SIZE == 120

RECURSIVE Repetido(_, _)
Repetido(c, n) == IF n = 0 THEN "" ELSE c \o Repetido(c, n - 1)

RECURSIVE Unidos(_)
Unidos(tokens) ==
  IF tokens = <<>> THEN ""
  ELSE IF Len(tokens) = 1 THEN tokens[1]
  ELSE tokens[1] \o ";" \o Unidos(Tail(tokens))

\* The characters that leerLineaN leaves in a buffer of BUFFER_SIZE bytes for
\* a stored line: everything before the '\n', carriage returns included, cut
\* at BUFFER_SIZE - 1.
Texto(linea) ==
  LET todo == Unidos(linea.t) \o Repetido("\r", linea.cr)
  IN IF Len(todo) > BUFFER_SIZE - 1 THEN SubSeq(todo, 1, BUFFER_SIZE - 1) ELSE todo

CamposLimpios(r) == \A i \in 3..7 : r[i] # "" /\ ~Contiene(r[i], ";")

C29_RoundTrip ==
  (pc = "rp_enviarHTTP" /\ campos.linea \in Medidos /\ CamposLimpios(campos.linea)) =>
    LET leidos == strtok(Texto([t |-> campos.linea, cr |-> campos.cr]), ";")
    IN SubSeq(leidos, 3, 7) = SubSeq(campos.linea, 3, 7)

(***************************************************************************)
(* The two read functions at the level of characters.  In this part sd     *)
(* maps a file name to the text of the file, and bufferLinea holds the     *)
(* result of the call together with the C string that the caller's buffer  *)
(* holds after it.  The texts are what appends of println'ed lines leave   *)
(* on the card, an append cut short by a power loss included, and one line *)
(* that is longer than bufferLinea.                                        *)
(***************************************************************************)
MaxLineasTexto == 2
LineasDeTexto == {"1;20\r\n", "2;21\r\n"}
\* A line of BUFFER_SIZE + 5 characters before its line end.
Bloque == "7777777777777777777777777"
LineaLarga == Bloque \o Bloque \o Bloque \o Bloque \o Bloque \o "\r\n"

RECURSIVE TextosDe(_)
TextosDe(n) ==
  IF n = 0 THEN {""} ELSE {l \o t : l \in LineasDeTexto, t \in TextosDe(n - 1)}

Prefijos(texto) == {SubSeq(texto, 1, k) : k \in 0..Len(texto)}

TextosArchivo ==
  UNION {Prefijos(t) : t \in TextosDe(MaxLineasTexto)}
    \cup {LineaLarga, LineaLarga \o "1;20\r\n"}

\* The string in a zero-filled array that held viejo, after its first
\* Len(escritos) bytes were overwritten and no '\0' was stored.
Sobrescrito(viejo, escritos) ==
  IF Len(escritos) < Len(viejo)
  THEN escritos \o SubSeq(viejo, Len(escritos) + 1, Len(viejo))
  ELSE escritos

\* leerLineaN on texts: the result and the buffer after the call.  The while
\* loop skips the lines before numeroLinea and then stores characters until
\* it reads a '\n', or reads any character with bufferSize - 1 of them
\* stored; at the end of the file it returns false without storing a '\0'.
leerLineaNTexto(s, disponible, abre, nombreArchivo, numeroLinea, viejo, bufferSize) ==
  IF ~disponible \/ ~abre \/ nombreArchivo \notin DOMAIN s
  THEN [ok |-> FALSE, buffer |-> viejo]
  ELSE LET texto == s[nombreArchivo]
           saltos == {i \in 1..Len(texto) : SubSeq(texto, i, i) = "\n"}
           antes(i) == Cardinality({j \in saltos : j < i})
           \* first character of line numeroLinea
           inicio == IF numeroLinea = 0 THEN 1
                     ELSE IF Cardinality(saltos) < numeroLinea THEN Len(texto) + 1
                     ELSE 1 + CHOOSE i \in saltos : antes(i) = numeroLinea - 1
           paradas == {i \in inicio..Len(texto) :
                         i \in saltos \/ i - inicio >= bufferSize - 1}
       IN IF paradas = {}
          THEN [ok |-> FALSE,
                buffer |-> Sobrescrito(viejo, SubSeq(texto, inicio, Len(texto)))]
          ELSE LET fin == CHOOSE i \in paradas : \A j \in paradas : i <= j
               IN [ok |-> TRUE, buffer |-> SubSeq(texto, inicio, fin - 1)]

\* leerPrimeraLinea on texts: it stops at '\n', at '\r', after 149
\* characters or at the end of the file, and returns i > 0.
leerPrimeraLineaTexto(s, abre, nombreArchivo, viejo) ==
  IF ~abre \/ nombreArchivo \notin DOMAIN s
  THEN [ok |-> FALSE, buffer |-> viejo]
  ELSE LET texto == s[nombreArchivo]
           cortes1 == {i \in 1..Len(texto) :
                         SubSeq(texto, i, i) = "\n" \/ SubSeq(texto, i, i) = "\r" \/ i = 150}
           fin == IF cortes1 = {} THEN Len(texto) + 1
                  ELSE CHOOSE i \in cortes1 : \A j \in cortes1 : i <= j
           escritos == SubSeq(texto, 1, fin - 1)
       IN [ok |-> Len(escritos) > 0, buffer |-> escritos]

\* contarLineas with the count of '\n' computed as the code does, but counting
\* a last line that no '\n' ends as well.
contarLineasTexto_conFragmento(s, disponible, abre, nombreArchivo) ==
  IF ~disponible \/ ~abre \/ nombreArchivo \notin DOMAIN s THEN 0
  ELSE LET texto == s[nombreArchivo]
           saltos == Cardinality({i \in 1..Len(texto) : SubSeq(texto, i, i) = "\n"})
       IN Int16(IF texto # "" /\ SubSeq(texto, Len(texto), Len(texto)) # "\n"
                THEN saltos + 1 ELSE saltos)

\* contarLineas on texts: the number of '\n' in the file, in an int of 16
\* bits; 0 when the card is not available or the file cannot be opened.
contarLineasTexto(s, disponible, abre, nombreArchivo) ==
  IF ~disponible \/ ~abre \/ nombreArchivo \notin DOMAIN s THEN 0
  ELSE LET texto == s[nombreArchivo]
       IN Int16(Cardinality({i \in 1..Len(texto) : SubSeq(texto, i, i) = "\n"}))

InitLectura ==
  /\ pc = "lectura"
  /\ sd \in {<<>>} \cup {(ARCHIVO_PENDIENTES :> t) : t \in TextosArchivo}
  /\ sdDisponible \in BOOLEAN
  /\ bufferLinea \in {[ok |-> FALSE, buffer |-> viejo] : viejo \in {"", "9;99\r"}}
  /\ pila = <<>>
  /\ contadorMediciones = 0
  /\ contador_bateria_baja = 0
  /\ periodo = PeriodoInicial
  /\ acumula = AcumulaInicial
  /\ voltios = 0
  /\ porcentaje = 0
  /\ cobertura = 0
  /\ pendientes = 0
  /\ intentos = 0
  /\ enviados = 0
  /\ campos = CamposVacios
  /\ buffers = BuffersVacios
  /\ iAcumula = 0
  /\ guardado = FALSE
  /\ falloDrain = FALSE
  /\ promocion = PromocionNinguna
  /\ millis = 0
  /\ cortes = 0
  /\ fallosSD = 0
  /\ historial = <<>>
  /\ noGuardados = {}
  /\ sometidos = {}
  /\ acusados = {}
  /\ nEnvios = 0
  /\ ultimoEnvio = [linea |-> <<>>, respuesta |-> "", ok |-> FALSE, origen |-> "ninguno"]
  /\ cortada = [fase |-> "ninguna", clase |-> "", linea |-> <<>>, antes |-> <<>>, etapa |-> ""]
  /\ archivoLectura = ArchivoCerrado
  /\ ciclo = CicloNuevo
  /\ entorno = EntornoCampo

ajenasLectura ==
  <<pila, sd, sdDisponible, contadorMediciones, contador_bateria_baja, periodo, acumula,
    voltios, porcentaje, cobertura, intentos, enviados, campos, buffers,
    iAcumula, guardado, millis, cortes, fallosSD, historial, noGuardados, sometidos,
    acusados, nEnvios, ultimoEnvio, falloDrain, promocion, cortada, archivoLectura,
    entorno, ciclo>>

\* SD.open(.., FILE_READ) fails on a missing file and may fail on a present one.
AperturasLectura == IF ARCHIVO_PENDIENTES \in DOMAIN sd THEN {TRUE, FALSE} ELSE {FALSE}

\* leerLineaN(ARCHIVO_PENDIENTES, 0, bufferLinea, BUFFER_SIZE)
lectura_leerLineaN ==
  /\ pc = "lectura"
  /\ \E abre \in AperturasLectura :
       bufferLinea' = leerLineaNTexto(sd, sdDisponible, abre, ARCHIVO_PENDIENTES, 0,
                                      bufferLinea.buffer, BUFFER_SIZE)
  /\ pc' = "leerLineaN"
  /\ UNCHANGED <<ajenasLectura, pendientes>>

\* leerPrimeraLinea(ARCHIVO_PENDIENTES, linea)
lectura_leerPrimeraLinea ==
  /\ pc = "lectura"
  /\ \E abre \in AperturasLectura :
       bufferLinea' = leerPrimeraLineaTexto(sd, abre /\ sdDisponible, ARCHIVO_PENDIENTES,
                                            bufferLinea.buffer)
  /\ pc' = "leerPrimeraLinea"
  /\ UNCHANGED <<ajenasLectura, pendientes>>

\* int pendientes = contarLineas(ARCHIVO_PENDIENTES) of the program with IDs
lectura_contarLineas ==
  /\ pc = "lectura"
  /\ \E abre \in AperturasLectura :
       pendientes' = contarLineasTexto(sd, sdDisponible, abre, ARCHIVO_PENDIENTES)
  /\ pc' = "contarLineas"
  /\ UNCHANGED <<ajenasLectura, bufferLinea>>

\* int pendientes = contarLineas(ARCHIVO_PENDIENTES) of the first program,
\* which has no sdDisponible test: the open fails when the card is not mounted.
lectura_contarLineasA ==
  /\ pc = "lectura"
  /\ \E abre \in AperturasLectura :
       pendientes' = contarLineasTexto(sd, TRUE, abre /\ sdDisponible, ARCHIVO_PENDIENTES)
  /\ pc' = "A_contarLineas"
  /\ UNCHANGED <<ajenasLectura, bufferLinea>>

NextLectura ==
  \/ lectura_leerLineaN
  \/ lectura_leerPrimeraLinea
  \/ lectura_contarLineas
  \/ lectura_contarLineasA

SpecLectura == InitLectura /\ [][NextLectura]_vars

(***************************************************************************)
(* C30: a read of the oldest pending line leaves pendient.csv as it was;   *)
(* when it reports a line, the buffer holds the characters of the file     *)
(* before its first '\n' (with or without the '\r' of the line end); and   *)
(* it reports no line when the file is missing, is empty or holds no '\n'. *)
(***************************************************************************)
PrimeraLinea(texto) ==
  LET fin == CHOOSE i \in 1..Len(texto) :
               /\ SubSeq(texto, i, i) = "\n"
               /\ \A j \in 1..(i - 1) : SubSeq(texto, j, j) # "\n"
  IN SubSeq(texto, 1, fin - 1)

SinRetorno(linea) ==
  IF linea # "" /\ SubSeq(linea, Len(linea), Len(linea)) = "\r"
  THEN SubSeq(linea, 1, Len(linea) - 1)
  ELSE linea

HayLineaCompleta(s) ==
  ARCHIVO_PENDIENTES \in DOMAIN s /\ Contiene(s[ARCHIVO_PENDIENTES], "\n")

C30_PeekOldest ==
  [][pc = "lectura" =>
       /\ sd' = sd
       /\ ~HayLineaCompleta(sd) => ~bufferLinea'.ok
       /\ bufferLinea'.ok =>
            LET linea == PrimeraLinea(sd[ARCHIVO_PENDIENTES])
            IN bufferLinea'.buffer = linea \/ bufferLinea'.buffer = SinRetorno(linea)
    ]_vars

(***************************************************************************)
(* C31: contarLineas on pendient.csv leaves the file as it was and returns *)
(* 0 or the number of lines that a '\n' ends (a fragment after the last    *)
(* '\n' is not counted); it returns 0 when the file is missing or the card *)
(* is not available.                                                       *)
(***************************************************************************)
RECURSIVE LineasCompletas(_)
LineasCompletas(texto) ==
  IF ~Contiene(texto, "\n") THEN 0
  ELSE 1 + LineasCompletas(SubSeq(texto, Len(PrimeraLinea(texto)) + 2, Len(texto)))

C31_CountsCompleteLines ==
  [][(pc = "lectura" /\ (pc' = "contarLineas" \/ pc' = "A_contarLineas")) =>
       /\ sd' = sd
       /\ \/ pendientes' = 0
          \/ /\ ARCHIVO_PENDIENTES \in DOMAIN sd
             /\ pendientes' = LineasCompletas(sd[ARCHIVO_PENDIENTES])
       /\ (ARCHIVO_PENDIENTES \notin DOMAIN sd \/ ~sdDisponible) => pendientes' = 0
    ]_vars

\* contarLineas has returned 1 for a file of one line and a fragment.
C31_Witness ==
  /\ pc = "contarLineas"
  /\ sd = (ARCHIVO_PENDIENTES :> "1;20\r\n2;2")
  /\ pendientes = 1

(***************************************************************************)
(* C32: a step that changes log.txt leaves pendient.csv, enviado.csv and   *)
(* temp.tmp as they were (setup, which also creates the missing files with *)
(* their header, leaves the existing ones as they were); and at each place *)
(* where a log line is due the program continues at the same place and     *)
(* with the same result of the queue operation, whether the line was       *)
(* written or not.                                                         *)
(***************************************************************************)
LogCambia == Contenido(sd', ARCHIVO_LOG) # Contenido(sd, ARCHIVO_LOG)

ColaIntacta == Intacto(ARCHIVO_PENDIENTES) /\ Intacto(ARCHIVO_ENVIADOS) /\ Intacto(ArchivoTemp)

C32_LogIsBestEffort ==
  [][cortes' = cortes =>
       /\ (LogCambia /\ pc # "setup") => ColaIntacta
       /\ (LogCambia /\ pc = "setup") =>
            \A f \in {ARCHIVO_PENDIENTES, ARCHIVO_ENVIADOS} :
              IF f \in DOMAIN sd THEN Intacto(f)
              ELSE Contenido(sd', f) \in {<<>>, <<Linea(Encabezado)>>}
       /\ pc = "setup" => pc' = "loop"
       /\ (pc = "loop" /\ contador_bateria_baja > UMBRAL_BATERIA_BAJA) => pc' = "apagado"
       /\ (pc = "guardarMedicion" /\ ~guardado') =>
            (pc' = "loop_enviarHTTP" /\ ColaIntacta /\ historial' = historial)
       /\ (pc = "loop_enviarHTTP" /\ ~ultimoEnvio'.ok) => (pc' = "loop_fin" /\ ColaIntacta)
    ]_vars

\* The submit of loop() failed in cycles 1 and 2; the log line of cycle 1 was
\* written, the open of log.txt failed in cycle 2, and loop() went on to its end.
C32_Witness ==
  /\ pc = "loop_fin"
  /\ millis = 2
  /\ fallosSD = 1
  /\ ~ultimoEnvio.ok
  /\ ultimoEnvio.origen = "loop"
  /\ <<"1 ms: Envio fallido, en cola">> \in Rango(Registros(ARCHIVO_LOG))
  /\ <<"2 ms: Envio fallido, en cola">> \notin Rango(Registros(ARCHIVO_LOG))

(***************************************************************************)
(* guardarMedicion at the level of characters, applied to field strings    *)
(* that the caller hands over, and the parse of the line by the drain.     *)
(* As in the part on reading, sd maps a file name to the text of the file. *)
(***************************************************************************)
CamposDeEntrada == {"20.5", "2;5", ";"}

TextoEncabezado == Unidos(Encabezado) \o "\r\n"

\* guardarMedicion on texts: the result and the volume after the call.
guardarMedicionTexto(s, disponible, abre, id, ms, b) ==
  IF ~disponible \/ ~abre THEN [ok |-> FALSE, sd |-> s]
  ELSE [ok |-> TRUE,
        sd |-> [g \in DOMAIN s \cup {ARCHIVO_PENDIENTES} |->
                  IF g = ARCHIVO_PENDIENTES
                  THEN (IF g \in DOMAIN s THEN s[g] ELSE "")
                         \o Unidos(<<Dec(id), Dec(ms), b.temp, b.cond, b.bat, b.volt, b.cob>>)
                         \o "\r\n"
                  ELSE s[g]]]

InitCodifica ==
  /\ pc = "codifica"
  /\ sd = (ARCHIVO_PENDIENTES :> TextoEncabezado)
  /\ sdDisponible \in BOOLEAN
  /\ buffers \in [{"temp", "cond", "bat", "volt", "cob"} -> CamposDeEntrada]
  /\ contadorMediciones = 1
  /\ millis = 1
  /\ bufferLinea = [ok |-> FALSE, buffer |-> ""]
  /\ pila = <<>>
  /\ contador_bateria_baja = 0
  /\ periodo = PeriodoInicial
  /\ acumula = AcumulaInicial
  /\ voltios = 0
  /\ porcentaje = 0
  /\ cobertura = 0
  /\ pendientes = 0
  /\ intentos = 0
  /\ enviados = 0
  /\ campos = CamposVacios
  /\ iAcumula = 0
  /\ guardado = FALSE
  /\ falloDrain = FALSE
  /\ promocion = PromocionNinguna
  /\ cortes = 0
  /\ fallosSD = 0
  /\ historial = <<>>
  /\ noGuardados = {}
  /\ sometidos = {}
  /\ acusados = {}
  /\ nEnvios = 0
  /\ ultimoEnvio = [linea |-> <<>>, respuesta |-> "", ok |-> FALSE, origen |-> "ninguno"]
  /\ cortada = [fase |-> "ninguna", clase |-> "", linea |-> <<>>, antes |-> <<>>, etapa |-> ""]
  /\ archivoLectura = ArchivoCerrado
  /\ ciclo = CicloNuevo
  /\ entorno = EntornoCampo

ajenasCodifica ==
  <<pila, sdDisponible, contadorMediciones, contador_bateria_baja, periodo, acumula,
    voltios, porcentaje, cobertura, pendientes, intentos, enviados, buffers,
    iAcumula, millis, cortes, fallosSD, historial, noGuardados, sometidos,
    acusados, nEnvios, ultimoEnvio, falloDrain, promocion, cortada, archivoLectura,
    entorno, ciclo>>

\* guardado = guardarMedicion(tempBuffer, condBuffer, batBuffer, voltBuffer, cobBuffer)
codifica_guardarMedicion ==
  /\ pc = "codifica"
  /\ \E abre \in BOOLEAN :
       LET g == guardarMedicionTexto(sd, sdDisponible, abre, contadorMediciones, millis,
                                     buffers)
       IN /\ guardado' = g.ok
          /\ sd' = g.sd
  /\ pc' = "guardada"
  /\ UNCHANGED <<ajenasCodifica, bufferLinea, campos>>

\* The drain's leerLineaN of the line and its strtok parse: ID, Timestamp and
\* the five fields handed to enviarHTTP.
codifica_reintentarPendientes ==
  /\ pc = "guardada"
  /\ guardado
  /\ LET r == leerLineaNTexto(sd, sdDisponible, TRUE, ARCHIVO_PENDIENTES, 1,
                              bufferLinea.buffer, BUFFER_SIZE)
         tokens == strtok(r.buffer, ";")
     IN /\ bufferLinea' = r
        /\ campos' = IF Len(tokens) >= 7
                     THEN [t |-> SubSeq(tokens, 3, 7), cr |-> 0, linea |-> tokens]
                     ELSE CamposVacios
  /\ pc' = "leida"
  /\ UNCHANGED <<ajenasCodifica, sd, guardado>>

NextCodifica == codifica_guardarMedicion \/ codifica_reintentarPendientes

SpecCodifica == InitCodifica /\ [][NextCodifica]_vars

(***************************************************************************)
(* C33: guardarMedicion called with a field that contains ';' returns      *)
(* false and leaves pendient.csv as it was.                                *)
(***************************************************************************)
CampoConSeparador ==
  \E f \in {"temp", "cond", "bat", "volt", "cob"} : Contiene(buffers[f], ";")

C34_HeaderStaysFirst ==
  LET pend == Contenido(sd, ARCHIVO_PENDIENTES)
      env == Contenido(sd, ARCHIVO_ENVIADOS)
  IN /\ Encabezado \notin sometidos
     /\ (pc = "loop_enviarHTTP" /\ guardado) => (pend # <<>> /\ pend[1].t = Encabezado)
     /\ \A i \in 2..Len(env) : env[i].t # Encabezado

(***************************************************************************)
(* C35: the step with which eliminarPrimeraLinea returns true leaves       *)
(* pendient.csv with the content it had when the removal began, without    *)
(* its first line, and leaves no temp.tmp; and in a run without power loss *)
(* temp.tmp does not exist when a promotion begins.                        *)
(***************************************************************************)
C35_RemovalExact ==
  [][/\ (pc = "el_removeTemp" /\ cortes' = cortes) =>
          /\ ArchivoTemp \notin DOMAIN sd'
          /\ promocion.antes # <<>>
          /\ Contenido(sd', ARCHIVO_PENDIENTES) = Tail(promocion.antes)
     /\ (cortes' = 0 /\ pc' = "marcarComoEnviado") => ArchivoTemp \notin DOMAIN sd'
    ]_vars

(***************************************************************************)
(* C36: in one operating cycle loop() submits at most once, the drain at   *)
(* most MAX_REINTENTOS times; the submit of loop() is the submit of the    *)
(* measurement the cycle has just taken; and a cycle that reaches its end  *)
(* has made that submit, whether the drain failed or not and whether the   *)
(* measurement was saved or not.                                           *)
(***************************************************************************)
C36_OneImmediateSubmit ==
  [][/\ ciclo'.enviosLoop <= 1
     /\ ciclo'.enviosDrain + ciclo'.enviosLoop <= MAX_REINTENTOS + 1
     /\ (pc = "loop_enviarHTTP" /\ cortes' = cortes) =>
          /\ nEnvios' = nEnvios + 1
          /\ ciclo'.enviosLoop = 1
          /\ ultimoEnvio'.linea = RegistroNuevo(contadorMediciones)
     /\ (pc = "loop_fin" /\ pc' = "loop") => ciclo.enviosLoop = 1
    ]_vars

\* A cycle ends after MAX_REINTENTOS + 1 submits: the drain has made three
\* and left lines behind, and loop() has submitted a measurement that could
\* not be saved.
C36_Witness ==
  /\ pc = "loop_fin"
  /\ ciclo.enviosDrain = MAX_REINTENTOS
  /\ ciclo.enviosLoop = 1
  /\ ~guardado
  /\ ultimoEnvio.origen = "loop"
  /\ Len(Contenido(sd, ARCHIVO_PENDIENTES)) >= 1

(***************************************************************************)
(* The battery reading at the level of characters: the reply to AT+CBC as  *)
(* readBytes delivers it, its parse with strtok and atoi, and the update   *)
(* of the low-battery counter.  pc names the program whose reader runs;    *)
(* bufferLinea keeps the reply that was read last, with the voltage it     *)
(* reports when it is a well-formed reply.                                 *)
(***************************************************************************)
MaxContadorBajo == 2
VoltiosCBC == {2900, 3000, 3100, 3300, 3700, 4200}

TextoCBC(p, v) == "\r\n+CBC: 0," \o Dec(p) \o "," \o Dec(v) \o "\r\n\r\nOK\r\n"

RespuestasCBCTexto ==
  {[texto |-> TextoCBC(50, v), valido |-> TRUE, voltios |-> v] : v \in VoltiosCBC}
    \cup {[texto |-> t, valido |-> FALSE, voltios |-> 0] : t \in {"", "\r\nERROR\r\n"}}

\* What atoi(NULL) may deliver.
ValoresIndeterminados == {0, 3100, 3700}

\* One strtok call on what is left of the string: the leading delimiters are
\* skipped, the token ends before the next delimiter, and the scan resumes
\* after that delimiter.
Corte(texto, delims) ==
  LET fuera == {i \in 1..Len(texto) : SubSeq(texto, i, i) \notin delims} IN
  IF fuera = {} THEN [hay |-> FALSE, token |-> "", resto |-> ""]
  ELSE LET inicio == CHOOSE i \in fuera : \A j \in fuera : i <= j
           finales == {i \in inicio..Len(texto) : SubSeq(texto, i, i) \in delims}
           fin == IF finales = {} THEN Len(texto) + 1
                  ELSE CHOOSE i \in finales : \A j \in finales : i <= j
       IN [hay |-> TRUE, token |-> SubSeq(texto, inicio, fin - 1),
           resto |-> SubSeq(texto, fin + 1, Len(texto))]

\* The four strtok calls of the readers: the tokens for porcentaje and voltios.
TokensCBC(texto, primero) ==
  LET t1 == Corte(texto, primero)
      t2 == Corte(t1.resto, {","})
      t3 == Corte(t2.resto, {","})
      t4 == Corte(t3.resto, {","})
  IN [porcentaje |-> t3, voltios |-> t4]

InitCBC ==
  /\ pc \in {"B_leerBateria", "A_leerBateria", "H_GetBateria"}
  /\ voltios = 0
  /\ porcentaje = 0
  /\ contador_bateria_baja = 0
  /\ bufferLinea = [texto |-> "", valido |-> FALSE, voltios |-> 0]
  /\ sd = <<>>
  /\ sdDisponible = FALSE
  /\ buffers = BuffersVacios
  /\ contadorMediciones = 0
  /\ millis = 0
  /\ pila = <<>>
  /\ periodo = PeriodoInicial
  /\ acumula = AcumulaInicial
  /\ cobertura = 0
  /\ pendientes = 0
  /\ intentos = 0
  /\ enviados = 0
  /\ campos = CamposVacios
  /\ iAcumula = 0
  /\ guardado = FALSE
  /\ falloDrain = FALSE
  /\ promocion = PromocionNinguna
  /\ cortes = 0
  /\ fallosSD = 0
  /\ historial = <<>>
  /\ noGuardados = {}
  /\ sometidos = {}
  /\ acusados = {}
  /\ nEnvios = 0
  /\ ultimoEnvio = [linea |-> <<>>, respuesta |-> "", ok |-> FALSE, origen |-> "ninguno"]
  /\ cortada = [fase |-> "ninguna", clase |-> "", linea |-> <<>>, antes |-> <<>>, etapa |-> ""]
  /\ archivoLectura = ArchivoCerrado
  /\ ciclo = CicloNuevo
  /\ entorno = EntornoCampo

ajenasCBC ==
  <<pc, pila, sd, sdDisponible, contadorMediciones, periodo, acumula, cobertura,
    pendientes, intentos, enviados, campos, buffers, iAcumula, guardado, millis, cortes,
    fallosSD, historial, noGuardados, sometidos, acusados, nEnvios, ultimoEnvio,
    falloDrain, promocion, cortada, archivoLectura, entorno, ciclo>>

\* leerBateria() of the program with IDs: a missing token leaves the variable
\* as it was, and the counter is updated from voltios either way.
cbc_leerBateria ==
  /\ pc = "B_leerBateria"
  /\ contador_bateria_baja <= MaxContadorBajo
  /\ \E r \in RespuestasCBCTexto :
       LET t == TokensCBC(r.texto, {":"})
           v == IF t.voltios.hay THEN atoi(t.voltios.token) ELSE voltios
       IN /\ bufferLinea' = r
          /\ porcentaje' = IF t.porcentaje.hay THEN atoi(t.porcentaje.token) ELSE porcentaje
          /\ voltios' = v
          /\ contador_bateria_baja' = leerBateria(contador_bateria_baja, v)
  /\ UNCHANGED ajenasCBC

\* leerBateria() of the first program: strtok(buffer_sim, "CBC:"), and atoi of
\* every token, also of a missing one.
cbc_leerBateriaA ==
  /\ pc = "A_leerBateria"
  /\ contador_bateria_baja <= MaxContadorBajo
  /\ \E r \in RespuestasCBCTexto, pNulo \in ValoresIndeterminados,
        vNulo \in ValoresIndeterminados :
       LET t == TokensCBC(r.texto, {"C", "B", ":"})
           v == IF t.voltios.hay THEN atoi(t.voltios.token) ELSE vNulo
       IN /\ bufferLinea' = r
          /\ porcentaje' = IF t.porcentaje.hay THEN atoi(t.porcentaje.token) ELSE pNulo
          /\ voltios' = v
          /\ contador_bateria_baja' = GetBateria(contador_bateria_baja, v)
  /\ UNCHANGED ajenasCBC

\* GetBateria() of the single-file program.
cbc_GetBateria ==
  /\ pc = "H_GetBateria"
  /\ contador_bateria_baja <= MaxContadorBajo
  /\ \E r \in RespuestasCBCTexto, pNulo \in ValoresIndeterminados,
        vNulo \in ValoresIndeterminados :
       LET t == TokensCBC(r.texto, {"C", "B", ":"})
           v == IF t.voltios.hay THEN atoi(t.voltios.token) ELSE vNulo
       IN /\ bufferLinea' = r
          /\ porcentaje' = IF t.porcentaje.hay THEN atoi(t.porcentaje.token) ELSE pNulo
          /\ voltios' = v
          /\ contador_bateria_baja' = GetBateria(contador_bateria_baja, v)
  /\ UNCHANGED ajenasCBC

NextCBC == cbc_leerBateria \/ cbc_leerBateriaA \/ cbc_GetBateria

SpecCBC == InitCBC /\ [][NextCBC]_vars

(***************************************************************************)
(* C37: a battery reading whose reply reports a voltage above 3000 and     *)
(* below 3300 adds one to the low-battery counter, one that reports 3300   *)
(* or more sets it to 0, and any other reading (3000 or less, or a reply   *)
(* that is not a +CBC reply) leaves it as it was; it is never negative.    *)
(***************************************************************************)
C37_CounterFollowsReading ==
  [][LET r == bufferLinea' IN
     /\ contador_bateria_baja' >= 0
     /\ contador_bateria_baja' =
          IF r.valido /\ r.voltios > 3000 /\ r.voltios < 3300
          THEN contador_bateria_baja + 1
          ELSE IF r.valido /\ r.voltios >= 3300 THEN 0
          ELSE contador_bateria_baja
    ]_vars

(***************************************************************************)
(* C38: the shutdown is entered from the head of loop() only, and only in  *)
(* a cycle that more than UMBRAL_BATERIA_BAJA cycles precede; the          *)
(* low-battery counter grows only in the battery reading that follows the  *)
(* drain, by one.                                                          *)
(***************************************************************************)
C38_ShutdownAfterThresholdCycles ==
  [][/\ (pc' = "apagado" /\ pc # "apagado") =>
          (pc = "loop" /\ millis' - 1 > UMBRAL_BATERIA_BAJA)
     /\ contador_bateria_baja' > contador_bateria_baja =>
          (pc = "leerEstado" /\ contador_bateria_baja' = contador_bateria_baja + 1)
    ]_vars

(***************************************************************************)
(* C39. Within one boot the id counter advances by exactly one in every    *)
(* cycle that passes the gate, also when the append fails, so the ids of   *)
(* the record lines appended to pendient.csv are strictly increasing in    *)
(* file order and the first id is 1.  The counter is 0 when setup() runs;  *)
(* it changes only in the save step of loop(), by one, or goes back to 0   *)
(* at a restart; a saved record is appended at the end of pendient.csv     *)
(* with the new value as its id; in the first boot the counter equals the  *)
(* number of cycles begun whenever loop() is about to be called, and the   *)
(* record lines of pendient.csv carry increasing ids from top to bottom.   *)
(***************************************************************************)
EsRegistro(t) == Len(t) = 7 /\ t # Encabezado

IdsCrecientes(lineas) ==
  \A i \in DOMAIN lineas : \A j \in DOMAIN lineas :
    (i < j /\ EsRegistro(lineas[i].t) /\ EsRegistro(lineas[j].t))
      => \E a \in 1..MaxCiclos : \E b \in 1..MaxCiclos :
           a < b /\ lineas[i].t[1] = Dec(a) /\ lineas[j].t[1] = Dec(b)

PasoDeGuardado == pc = "guardarMedicion" /\ pc' = "loop_enviarHTTP"

C39_IdsIncrease ==
  /\ [](/\ pc = "setup" => contadorMediciones = 0
        /\ (pc = "loop" /\ cortes = 0) => contadorMediciones = millis
        /\ cortes = 0 => IdsCrecientes(Contenido(sd, ARCHIVO_PENDIENTES)))
  /\ [][/\ PasoDeGuardado =>
             /\ contadorMediciones' = contadorMediciones + 1
             /\ guardado' =>
                  Contenido(sd', ARCHIVO_PENDIENTES)
                    = Append(Contenido(sd, ARCHIVO_PENDIENTES),
                             Linea(RegistroNuevo(contadorMediciones')))
        /\ contadorMediciones' # contadorMediciones =>
             (PasoDeGuardado \/ (pc' = "setup" /\ contadorMediciones' = 0))
       ]_vars

\* The first append of the boot failed and the second one succeeded: the
\* record with id 1 was never stored and pendient.csv holds the one with id 2.
C39_Witness ==
  /\ pc = "loop_enviarHTTP"
  /\ cortes = 0
  /\ contadorMediciones = 2
  /\ guardado
  /\ \E r \in noGuardados : r[1] = Dec(1)
  /\ \E i \in DOMAIN Contenido(sd, ARCHIVO_PENDIENTES) :
       /\ Contenido(sd, ARCHIVO_PENDIENTES)[i].t = RegistroNuevo(2)
       /\ i = Len(Contenido(sd, ARCHIVO_PENDIENTES))

====
